---- MODULE Spec2Model ----
(***************************************************************************)
(* Ingestion-and-transcode pipeline of r2_video_hosting: the chunked       *)
(* upload assembler, the progress/queue registry, the per-job pipeline     *)
(* coordinator, the transcode orchestrator (encode_to_hls) and the storage *)
(* uploader, modelled from src/src/handlers/upload.rs, src/src/video.rs    *)
(* and src/src/storage.rs.                                                 *)
(***************************************************************************)
EXTENDS Integers, Sequences, FiniteSets, TLC

\* ------------------------------------------------------------------------
\* Bounds of the model
\* ------------------------------------------------------------------------
\* largest total_chunks / chunk_index value a request may carry
MaxChunks == 2
\* last value of the millisecond clock
MaxTime == 2
\* cap on the number of encoder runs recorded for one variant task
MaxRuns == 3
\* audio streams of a source
MaxAudio == 3
\* parts of the largest file given to upload_large_file_to_r2
MaxParts == 4

UploadIds == {"u1"}
JobIds == {1, 2}

\* ------------------------------------------------------------------------
\* Progress registry
\* ------------------------------------------------------------------------
NoRecord == [status |-> "absent"]
None == "None"

ProgressUpdate(stage, cur, tot, pct, details, status, result, error, vname, created) ==
    [stage |-> stage, current_chunk |-> cur, total_chunks |-> tot,
     percentage |-> pct, details |-> details, status |-> status,
     result |-> result, error |-> error, video_name |-> vname,
     created_at |-> created]

\* update_progress: created_at of an existing entry is kept
update_progress(map, id, update) ==
    [map EXCEPT ![id] = IF map[id] # NoRecord
                        THEN [update EXCEPT !.created_at = map[id].created_at]
                        ELSE update]

\* direct HashMap::insert on the registry
insert_progress(map, id, update) == [map EXCEPT ![id] = update]

\* ------------------------------------------------------------------------
\* Chunked upload sessions
\* ------------------------------------------------------------------------
NoSession == [absent |-> TRUE]
\* the body of a chunk request: its bytes
Bodies == {<<"x">>, <<"y", "z">>}
OneBody == {<<"x">>}

\* the directory chunked-<upload_id>: the indices of its chunk files and their bytes
NoDir == [exists |-> FALSE, chunks |-> {}, data |-> <<>>]
Dir(chunks, data) == [exists |-> TRUE, chunks |-> chunks, data |-> data]

\* fs::write(chunk_path, chunk_data): the file of the index is created or replaced
fs_write(data, idx, body) ==
    [i \in DOMAIN data \cup {idx} |-> IF i = idx THEN body ELSE data[i]]
Idle == [pc |-> "idle"]

\* mutant: one received flag more than total_chunks
ChunkedUpload_one_more(tot, t) ==
    [total_chunks |-> tot,
     received_chunks |-> [i \in 1..(tot + 1) |-> FALSE],
     last_activity |-> t]

ChunkedUpload(tot, t) ==
    [total_chunks |-> tot,
     received_chunks |-> [i \in 1..tot |-> FALSE],
     last_activity |-> t]

\* mutant: the upload counts as complete as soon as one chunk is received
AllReceived_some(s) == \E i \in 1..Len(s.received_chunks) : s.received_chunks[i]

\* received_chunks.iter().all(|&r| r)
AllReceived(s) == \A i \in 1..Len(s.received_chunks) : s.received_chunks[i]

\* received_chunks.iter().filter(|&&r| r).count()
ReceivedCount(s) == Cardinality({i \in 1..Len(s.received_chunks) : s.received_chunks[i]})

FileName == "movie.mp4"
\* file_name.replace('.', "_")
ChunkVideoName == "movie_mp4"
BodyName == "My Video"

VARIABLES
    now,              \* now_millis()
    chunked_uploads,  \* AppState.chunked_uploads
    chunk_dirs,       \* the directories chunked-<id> on disk: set of chunk indices
    progress,         \* AppState.progress
    creq,             \* in-flight upload_chunk request per upload id
    freq,             \* in-flight finalize_chunked_upload request per upload id
    xreq,             \* in-flight cancel_queue request per upload id
    resp,             \* last response returned by a handler
    rejects,          \* 1 once a finalize of the id was rejected as incomplete, 0 again when one is accepted
    vreq,             \* in-flight upload_video request per upload id
    config,           \* Config: video.encoder, server.max_concurrent_encodes/uploads
    permits,          \* permits available in AppState.ffmpeg_semaphore
    njobs,            \* number of coordinators spawned so far
    job_uid,          \* upload id of each coordinator
    job_pc,           \* position of each coordinator
    job_media,        \* the source file of each job: video height, audio streams
    job_src,          \* the source temp file of the job exists
    job_hls,          \* the directory hls-<output_id> of the job exists
    vtask,            \* variant encode tasks of each job
    atask,            \* audio encode tasks of each job
    ttask,            \* thumbnail task of each job
    stask,            \* sprite task of each job
    master,           \* the master playlist index.m3u8 of the job is written
    playlist,         \* the entries of the master playlist of the job
    up,               \* upload_hls_to_r2 of each job: file counters
    r2,               \* number of objects of each job put to object storage
    job_cancelled,    \* cancel_queue returned cancelled=true while the job was queued
    sweep,            \* the last cleanup_stale_uploads task: its now and to_remove
    sse,              \* the progress stream of each upload id: position, start, last event
    mp,               \* upload_large_file_to_r2: position, parts and the storage-side session
    lk,               \* the two RwLocks of AppState and the lock steps of the tasks
    cleanup           \* the cleanup_uploads request: position and its now

svcvars == <<mp, lk, cleanup>>
reqvars == <<creq, freq, xreq, vreq>>
taskvars == <<vtask, atask, ttask, stask>>
jobvars == <<njobs, job_uid, job_pc, job_media, job_src, job_hls, taskvars, master, playlist, up, r2,
            job_cancelled>>
vars == <<now, chunked_uploads, chunk_dirs, progress, reqvars, resp,
          rejects, config, svcvars, sweep, sse, permits, jobvars>>

Response(op, uid, code, idx, tot) ==
    [op |-> op, uid |-> uid, code |-> code, chunk_index |-> idx, total_chunks |-> tot]

\* AudioStream.language: Option<String>, a text as the sequence of its characters
NoLanguage == <<>>
Some(text) == <<text>>

NoMedia == [height |-> 0, audio |-> 0, languages |-> <<>>]
NoEvent == [event |-> "none"]
NoStream == [pc |-> "none", start_time |-> 0, event |-> NoEvent]
\* upload_large_file_to_r2 at its call: session is the storage-side multipart upload
NoMultipart ==
    [pc |-> "idle", file_size |-> 0, remaining |-> 0, bytes_read |-> 0, part_number |-> 1,
     completed_parts |-> 0, puts |-> 0, session |-> "none", abort_issued |-> FALSE,
     result |-> "none"]
\* the tasks that take the RwLocks of AppState.progress and AppState.chunked_uploads
LockTasks ==
    {"upload_chunk", "finalize_chunked_upload", "cancel_queue", "cleanup_stale_uploads",
     "cleanup_uploads", "list_queues", "coordinator"}
\* no task is inside a handler, no lock is held; pc holds the position of the tasks
\* that are inside their handler
NoLocks == [pc |-> [t \in {} |-> 0], held |-> {}]
NoUpload ==
    [files_to_upload |-> {}, master_playlist_key |-> <<>>, total |-> 0, pending |-> 0,
     slots |-> <<>>, uploaded_count |-> 0, done |-> 0, failed |-> 0, playlist_key |-> <<>>,
     saved |-> FALSE, skipped |-> {}]

\* everything but the registry
InitState(configs) ==
    /\ config \in configs
    /\ permits = config.max_concurrent_encodes
    /\ vreq = [u \in UploadIds |-> Idle]
    /\ job_media = [j \in JobIds |-> NoMedia]
    /\ job_src = [j \in JobIds |-> FALSE]
    /\ job_hls = [j \in JobIds |-> FALSE]
    /\ vtask = [j \in JobIds |-> <<>>]
    /\ atask = [j \in JobIds |-> <<>>]
    /\ ttask = [j \in JobIds |-> "none"]
    /\ stask = [j \in JobIds |-> "none"]
    /\ master = [j \in JobIds |-> FALSE]
    /\ playlist = [j \in JobIds |-> <<>>]
    /\ up = [j \in JobIds |-> NoUpload]
    /\ r2 = [j \in JobIds |-> 0]
    /\ job_cancelled = [j \in JobIds |-> FALSE]
    /\ now = 1
    /\ chunked_uploads = [u \in UploadIds |-> NoSession]
    /\ chunk_dirs = [u \in UploadIds |-> NoDir]
    /\ creq = [u \in UploadIds |-> Idle]
    /\ freq = [u \in UploadIds |-> Idle]
    /\ xreq = [u \in UploadIds |-> Idle]
    /\ resp = Response("none", None, "none", -1, -1)
    /\ rejects = [u \in UploadIds |-> 0]
    /\ njobs = 0
    /\ job_uid = [j \in JobIds |-> None]
    /\ job_pc = [j \in JobIds |-> "unborn"]
    /\ sweep = [pc |-> "idle", now |-> 0, ids |-> {}]
    /\ sse = [u \in UploadIds |-> NoStream]
    /\ mp = Idle
    /\ lk = NoLocks
    /\ cleanup = Idle

\* the state after construction: both maps are empty
InitWith(configs) ==
    /\ InitState(configs)
    /\ progress = [u \in UploadIds |-> NoRecord]

\* no request handler is between two of its steps
NoRequest ==
    \A u \in UploadIds : creq[u] = Idle /\ freq[u] = Idle /\ xreq[u] = Idle /\ vreq[u] = Idle

\* the clock advances (excl: only between two requests)
Tick(excl) ==
    /\ excl => NoRequest
    /\ now < MaxTime
    /\ now' = now + 1
    /\ UNCHANGED <<chunked_uploads, chunk_dirs, progress, reqvars, resp,
                   rejects, config, svcvars, sweep, sse, permits, jobvars>>

\* ------------------------------------------------------------------------
\* upload_chunk
\* ------------------------------------------------------------------------
\* first lock section: create the session on the first chunk of an id
upload_chunk_begin(u, idx, tot, body, excl) ==
    /\ creq[u] = Idle
    /\ excl => NoRequest
    /\ creq' = [creq EXCEPT ![u] = [pc |-> "write", chunk_index |-> idx,
                                    total_chunks |-> tot, chunk_data |-> body,
                                    received_count |-> 0]]
    /\ IF chunked_uploads[u] = NoSession
       THEN /\ chunked_uploads' = [chunked_uploads EXCEPT ![u] = ChunkedUpload(tot, now)]
            /\ chunk_dirs' = [chunk_dirs EXCEPT ![u] = Dir(@.chunks, @.data)]
            /\ progress' = insert_progress(progress, u,
                   ProgressUpdate("Receiving chunks", 0, tot, 0, "Receiving chunk 1",
                                  "processing", None, None, ChunkVideoName, now))
       ELSE UNCHANGED <<chunked_uploads, chunk_dirs, progress>>
    /\ UNCHANGED <<now, freq, xreq, vreq, resp, rejects, config, svcvars, sweep, sse, permits, jobvars>>

\* fs::write of the chunk file into the session's temp_dir
upload_chunk_write(u) ==
    /\ creq[u].pc = "write"
    /\ IF ~chunk_dirs[u].exists
       THEN /\ creq' = [creq EXCEPT ![u] = Idle]
            /\ resp' = Response("upload_chunk", u, "io_error", creq[u].chunk_index,
                                IF chunked_uploads[u] = NoSession THEN -1
                                ELSE chunked_uploads[u].total_chunks)
            /\ UNCHANGED chunk_dirs
       ELSE /\ creq' = [creq EXCEPT ![u].pc = "mark"]
            /\ chunk_dirs' = [chunk_dirs EXCEPT ![u] =
                   Dir(@.chunks \cup {creq[u].chunk_index},
                       fs_write(@.data, creq[u].chunk_index, creq[u].chunk_data))]
            /\ UNCHANGED resp
    /\ UNCHANGED <<now, chunked_uploads, progress, freq, xreq, vreq, rejects, config, svcvars, sweep, sse, permits, jobvars>>

\* second lock section: received_chunks[chunk_index] = true
upload_chunk_mark(u) ==
    /\ creq[u].pc = "mark"
    /\ LET s == chunked_uploads[u]
           idx == creq[u].chunk_index
       IN IF s = NoSession
          THEN /\ creq' = [creq EXCEPT ![u].pc = "count"]
               /\ UNCHANGED <<chunked_uploads, resp>>
          ELSE IF idx >= Len(s.received_chunks)
          THEN \* index out of bounds: the handler task panics
               /\ creq' = [creq EXCEPT ![u] = Idle]
               /\ resp' = Response("upload_chunk", u, "panic", idx, s.total_chunks)
               /\ UNCHANGED chunked_uploads
          ELSE /\ chunked_uploads' = [chunked_uploads EXCEPT
                      ![u].received_chunks[idx + 1] = TRUE,
                      ![u].last_activity = now]
               /\ creq' = [creq EXCEPT ![u].pc = "count"]
               /\ UNCHANGED resp
    /\ UNCHANGED <<now, chunk_dirs, progress, freq, xreq, vreq, rejects, config, svcvars, sweep, sse, permits, jobvars>>

\* read lock section: received_count, then the percentage of the record
upload_chunk_count(u) ==
    /\ creq[u].pc = "count"
    /\ LET s == chunked_uploads[u]
           cnt == IF s = NoSession THEN 0 ELSE ReceivedCount(s)
       IN IF creq[u].total_chunks = 0
          THEN \* division by zero: the handler task panics
               /\ creq' = [creq EXCEPT ![u] = Idle]
               /\ resp' = Response("upload_chunk", u, "panic", creq[u].chunk_index,
                                   IF s = NoSession THEN -1 ELSE s.total_chunks)
          ELSE /\ creq' = [creq EXCEPT ![u].pc = "progress", ![u].received_count = cnt]
               /\ UNCHANGED resp
    /\ UNCHANGED <<now, chunked_uploads, chunk_dirs, progress, freq, xreq, vreq, rejects, config, svcvars, sweep, sse, permits, jobvars>>

\* update_progress with the "Receiving chunks" record, then the acknowledgement
upload_chunk_progress(u) ==
    /\ creq[u].pc = "progress"
    /\ LET cnt == creq[u].received_count
           tot == creq[u].total_chunks
       IN progress' = update_progress(progress, u,
              ProgressUpdate("Receiving chunks", cnt, tot, (cnt * 100) \div tot,
                             "Received chunk", "processing", None, None,
                             ChunkVideoName, 0))
    /\ creq' = [creq EXCEPT ![u] = Idle]
    /\ resp' = Response("upload_chunk", u, "received", creq[u].chunk_index,
                        IF chunked_uploads[u] = NoSession THEN -1
                        ELSE chunked_uploads[u].total_chunks)
    /\ UNCHANGED <<now, chunked_uploads, chunk_dirs, freq, xreq, vreq, rejects, config, svcvars, sweep, sse, permits, jobvars>>

\* tokio::spawn of the per-job coordinator; the assembled file is its source
spawn_coordinator(u, m) ==
    /\ njobs' = njobs + 1
    /\ job_uid' = [job_uid EXCEPT ![njobs + 1] = u]
    /\ job_pc' = [job_pc EXCEPT ![njobs + 1] = "start"]
    /\ job_media' = [job_media EXCEPT ![njobs + 1] = m]
    /\ job_src' = [job_src EXCEPT ![njobs + 1] = TRUE]

\* ------------------------------------------------------------------------
\* upload_video (direct upload)
\* ------------------------------------------------------------------------
\* the initial record is inserted before the multipart body is read
upload_video_begin(u, excl, limit) ==
    /\ vreq[u] = Idle
    /\ excl => NoRequest
    /\ njobs < limit
    /\ progress' = insert_progress(progress, u,
           ProgressUpdate("Initializing upload", 0, 1, 0, "Waiting for file data...",
                          "initializing", None, None, None, now))
    /\ vreq' = [vreq EXCEPT ![u] = [pc |-> "fields"]]
    /\ UNCHANGED <<now, chunked_uploads, chunk_dirs, creq, freq, xreq, resp, rejects, config, svcvars, sweep, sse,
                   permits, jobvars>>

\* a chunk of the "file" field is written to the temp file
upload_video_chunk(u) ==
    /\ vreq[u].pc = "fields"
    /\ progress' = update_progress(progress, u,
           ProgressUpdate("Uploading to server", 0, 1, 0, "Uploaded bytes", "processing",
                          None, None, None, 0))
    /\ vreq' = [vreq EXCEPT ![u].pc = "file"]
    /\ UNCHANGED <<now, chunked_uploads, chunk_dirs, creq, freq, xreq, resp, rejects, config, svcvars, sweep, sse,
                   permits, jobvars>>

\* a multipart error, or the field 'file' or 'name' is missing: the handler returns
upload_video_fail(u) ==
    /\ vreq[u].pc \in {"fields", "file"}
    /\ vreq' = [vreq EXCEPT ![u] = Idle]
    /\ resp' = Response("upload_video", u, "error", -1, -1)
    /\ UNCHANGED <<now, chunked_uploads, chunk_dirs, progress, creq, freq, xreq, rejects,
                   config, svcvars, sweep, sse, permits, jobvars>>

\* update_progress with "Queued for processing", tokio::spawn of the coordinator
upload_video_queue(u, limit, media) ==
    /\ vreq[u].pc = "file"
    /\ njobs < limit
    /\ progress' = update_progress(progress, u,
           ProgressUpdate("Queued for processing", 0, 1, 0, None, "processing",
                          None, None, BodyName, 0))
    /\ \E m \in media : spawn_coordinator(u, m)
    /\ vreq' = [vreq EXCEPT ![u] = Idle]
    /\ resp' = Response("upload_video", u, "accepted", -1, -1)
    /\ UNCHANGED <<now, chunked_uploads, chunk_dirs, creq, freq, xreq, rejects, config, svcvars, sweep, sse,
                   permits, job_hls, taskvars, master, playlist, up, r2, job_cancelled>>

\* ------------------------------------------------------------------------
\* finalize_chunked_upload
\* ------------------------------------------------------------------------
\* mutant: the session is read and stays in the map
finalize_take_get(u, excl, limit) ==
    /\ freq[u] = Idle
    /\ excl => NoRequest
    /\ (chunked_uploads[u] # NoSession /\ AllReceived(chunked_uploads[u])) => njobs < limit
    /\ LET s == chunked_uploads[u]
       IN IF s = NoSession
          THEN /\ resp' = Response("finalize", u, "not_found", -1, -1)
               /\ UNCHANGED <<chunked_uploads, freq, rejects>>
          ELSE /\ UNCHANGED chunked_uploads
               /\ IF ~AllReceived(s)
                  THEN /\ resp' = Response("finalize", u, "incomplete", -1, s.total_chunks)
                       /\ rejects' = [rejects EXCEPT ![u] = 1]
                       /\ UNCHANGED freq
                  ELSE /\ freq' = [freq EXCEPT ![u] =
                              [pc |-> "taken", total_chunks |-> s.total_chunks]]
                       /\ UNCHANGED <<resp, rejects>>
    /\ UNCHANGED <<now, chunk_dirs, progress, creq, xreq, vreq, config, svcvars, sweep, sse, permits, jobvars>>

\* uploads.remove(&upload_id), then the completeness check
finalize_take(u, excl, limit) ==
    /\ freq[u] = Idle
    /\ excl => NoRequest
    /\ (chunked_uploads[u] # NoSession /\ AllReceived(chunked_uploads[u])) => njobs < limit
    /\ LET s == chunked_uploads[u]
       IN IF s = NoSession
          THEN /\ resp' = Response("finalize", u, "not_found", -1, -1)
               /\ UNCHANGED <<chunked_uploads, freq, rejects>>
          ELSE /\ chunked_uploads' = [chunked_uploads EXCEPT ![u] = NoSession]
               /\ IF ~AllReceived(s)
                  THEN /\ resp' = Response("finalize", u, "incomplete", -1, s.total_chunks)
                       /\ rejects' = [rejects EXCEPT ![u] = 1]
                       /\ UNCHANGED freq
                  ELSE /\ freq' = [freq EXCEPT ![u] =
                              [pc |-> "taken", total_chunks |-> s.total_chunks]]
                       /\ UNCHANGED <<resp, rejects>>
    /\ UNCHANGED <<now, chunk_dirs, progress, creq, xreq, vreq, config, svcvars, sweep, sse, permits, jobvars>>

\* a further call for the id while another call is past its removal of the session:
\* uploads.remove(&upload_id), then the completeness check; one call at a time is
\* followed through the assembly
finalize_take_again(u) ==
    /\ freq[u] # Idle
    /\ LET s == chunked_uploads[u]
       IN IF s = NoSession
          THEN /\ resp' = Response("finalize", u, "not_found", -1, -1)
               /\ UNCHANGED <<chunked_uploads, rejects>>
          ELSE /\ ~AllReceived(s)
               /\ chunked_uploads' = [chunked_uploads EXCEPT ![u] = NoSession]
               /\ resp' = Response("finalize", u, "incomplete", -1, s.total_chunks)
               /\ rejects' = [rejects EXCEPT ![u] = 1]
    /\ UNCHANGED <<now, chunk_dirs, progress, reqvars, config, svcvars, sweep, sse, permits, jobvars>>

\* update_progress with the "Assembling file" record
finalize_assembling(u) ==
    /\ freq[u].pc = "taken"
    /\ LET tot == freq[u].total_chunks
       IN progress' = update_progress(progress, u,
              ProgressUpdate("Assembling file", tot, tot, 100, "Assembling chunks",
                             "processing", None, None, BodyName, 0))
    /\ freq' = [freq EXCEPT ![u].pc = "assembling"]
    /\ UNCHANGED <<now, chunked_uploads, chunk_dirs, creq, xreq, vreq, resp, rejects, config, svcvars, sweep, sse, permits, jobvars>>

RECURSIVE assemble_descending(_, _)
RECURSIVE assemble(_, _)

\* mutant: the chunk files are appended from the last index down to the first
assemble_descending(data, total) ==
    IF total = 0 THEN <<>> ELSE data[total - 1] \o assemble_descending(data, total - 1)

\* for i in 0..total_chunks: read chunk_<i> to its end and append it to the final file
assemble(data, total) ==
    IF total = 0 THEN <<>> ELSE assemble(data, total - 1) \o data[total - 1]

\* concatenate chunk_000000 .. chunk_<total-1>, then remove the temp directory
finalize_assemble(u) ==
    /\ freq[u].pc = "assembling"
    /\ LET tot == freq[u].total_chunks
       IN IF ~(0..(tot - 1) \subseteq chunk_dirs[u].chunks)
          THEN \* File::open of a chunk fails: 500, the record stays as it is
               /\ freq' = [freq EXCEPT ![u] = Idle]
               /\ resp' = Response("finalize", u, "io_error", -1, tot)
               /\ UNCHANGED chunk_dirs
          ELSE /\ freq' = [freq EXCEPT ![u] =
                      [pc |-> "assembled", total_chunks |-> tot,
                       final_file |-> assemble(chunk_dirs[u].data, tot)]]
               /\ chunk_dirs' = [chunk_dirs EXCEPT ![u] = NoDir]
               /\ UNCHANGED resp
    /\ UNCHANGED <<now, chunked_uploads, progress, creq, xreq, vreq, rejects, config, svcvars, sweep, sse, permits, jobvars>>

\* update_progress with "Queued for processing", tokio::spawn of the coordinator
finalize_queue(u, limit, media) ==
    /\ freq[u].pc = "assembled"
    /\ njobs < limit
    /\ progress' = update_progress(progress, u,
           ProgressUpdate("Queued for processing", 0, 1, 0, None, "processing",
                          None, None, BodyName, 0))
    /\ \E m \in media : spawn_coordinator(u, m)
    /\ freq' = [freq EXCEPT ![u] = Idle]
    /\ resp' = Response("finalize", u, "accepted", -1, freq[u].total_chunks)
    /\ rejects' = [rejects EXCEPT ![u] = 0]
    /\ UNCHANGED <<now, chunked_uploads, chunk_dirs, creq, xreq, vreq, config, svcvars, sweep, sse, permits,
                   job_hls, taskvars, master, playlist, up, r2, job_cancelled>>

\* ------------------------------------------------------------------------
\* cancel_queue
\* ------------------------------------------------------------------------
cancellable_stages == {"Initializing upload", "Queued for processing", "Receiving chunks"}

\* mutant: every record of status processing is cancellable, whatever its stage
is_cancellable_any_stage(p) == p.status \in {"initializing", "processing"}

is_cancellable(p) ==
    \/ p.status = "initializing"
    \/ (p.status = "processing" /\ p.stage \in cancellable_stages)

\* the section under the registry write lock
cancel_queue_mark(u, excl) ==
    /\ xreq[u] = Idle
    /\ excl => NoRequest
    /\ LET p == progress[u]
       IN IF p = NoRecord
          THEN /\ resp' = Response("cancel_queue", u, "not_found", -1, -1)
               /\ UNCHANGED <<progress, xreq>>
          ELSE IF ~is_cancellable(p)
          THEN /\ resp' = Response("cancel_queue", u, "conflict", -1, -1)
               /\ UNCHANGED <<progress, xreq>>
          ELSE /\ progress' = insert_progress(progress, u,
                      ProgressUpdate("Cancelled", 0, p.total_chunks, 0, "Cancelled by user",
                                     "failed", None, "Cancelled by user",
                                     p.video_name, p.created_at))
               /\ xreq' = [xreq EXCEPT ![u] = [pc |-> "cleanup"]]
               /\ UNCHANGED resp
    /\ job_cancelled' = [j \in JobIds |->
           job_cancelled[j] \/ (/\ job_uid[j] = u /\ job_pc[j] = "start"
                                /\ progress[u] # NoRecord /\ is_cancellable(progress[u]))]
    /\ UNCHANGED <<now, chunked_uploads, chunk_dirs, creq, freq, vreq, rejects, config, svcvars, sweep, sse, permits,
                   njobs, job_uid, job_pc, job_media, job_src, job_hls, taskvars, master, playlist, up, r2>>

\* the section under the chunked_uploads write lock
cancel_queue_cleanup(u) ==
    /\ xreq[u].pc = "cleanup"
    /\ IF chunked_uploads[u] # NoSession
       THEN /\ chunked_uploads' = [chunked_uploads EXCEPT ![u] = NoSession]
            /\ chunk_dirs' = [chunk_dirs EXCEPT ![u] = NoDir]
       ELSE UNCHANGED <<chunked_uploads, chunk_dirs>>
    /\ xreq' = [xreq EXCEPT ![u] = Idle]
    /\ resp' = Response("cancel_queue", u, "cancelled", -1, -1)
    /\ UNCHANGED <<now, progress, creq, freq, vreq, rejects, config, svcvars, sweep, sse, permits, jobvars>>

\* ------------------------------------------------------------------------
\* Variant ladder and encoder selection (video.rs)
\* ------------------------------------------------------------------------
all_variants == <<480, 720, 1080, 1440, 2160>>

\* mutant: only the ladder members strictly below the source height
get_variants_for_height_below(original_height) ==
    LET Keep(v) == v < original_height IN SelectSeq(all_variants, Keep)

\* the heights of the ladder at or below the source height, in ladder order
get_variants_for_height(original_height) ==
    LET Keep(v) == v <= original_height IN SelectSeq(all_variants, Keep)

\* EncoderType::from_string; an encoder name is the set of family names it contains
EncoderType_from_string(name) ==
    IF "nvenc" \in name THEN "Nvenc"
    ELSE IF "vaapi" \in name THEN "Vaapi"
    ELSE IF "qsv" \in name THEN "Qsv"
    ELSE "Cpu"

hw_error_patterns ==
    {"Hardware is lacking required capabilities",
     "Provided device doesn't support required NVENC features",
     "NVENC features",
     "hwaccel initialisation returned error",
     "Failed setup for format cuda",
     "Failed setup for format vaapi",
     "Failed setup for format qsv",
     "Impossible to convert between the formats",
     "Cannot open the hw device",
     "Could not open encoder before EOF",
     "Error initializing the hwcontext",
     "No capable adapters found",
     "Device creation failed",
     "No VAAPI support",
     "DRM setup failed",
     "Error while opening encoder",
     "maybe incorrect parameters",
     "Error sending frames to consumers",
     "Function not implemented",
     "Incompatible pixel format",
     "does not support the pixel format"}

\* a stderr text is the set of phrases it contains
is_hardware_encoder_error(stderr) == \E pattern \in hw_error_patterns : pattern \in stderr

\* mutant: the retry keeps the hardware encoder
fallback_encoder_same(enc) == enc

\* current_encoder = EncoderType::Cpu on a hardware failure
fallback_encoder(enc) == "Cpu"

\* what an ffmpeg run can end with: exit status and stderr
ExitOk == [success |-> TRUE, stderr |-> {}]
ExitHw == [success |-> FALSE, stderr |-> {"No capable adapters found"}]
ExitOther == [success |-> FALSE, stderr |-> {"Invalid data found when processing input"}]
Exits == {ExitOk, ExitHw, ExitOther}

\* ((current as f32 / total as f32) * 100.0) as u32
Percentage(current, total) == (current * 100) \div total

\* ------------------------------------------------------------------------
\* The per-job coordinator (the task spawned by finalize / upload_video)
\* ------------------------------------------------------------------------
NoSeen == [video_name |-> None, created_at |-> 0]

\* the label of a ladder member, a text as the sequence of its characters
variant_label(h) ==
    CASE h = 480 -> <<"4", "8", "0", "p">>
      [] h = 720 -> <<"7", "2", "0", "p">>
      [] h = 1080 -> <<"1", "0", "8", "0", "p">>
      [] h = 1440 -> <<"1", "4", "4", "0", "p">>
      [] h = 2160 -> <<"2", "1", "6", "0", "p">>

RECURSIVE decimal(_)
\* format!("{}", n) of an unsigned number
decimal(n) ==
    LET digit == <<"0", "1", "2", "3", "4", "5", "6", "7", "8", "9">>[(n % 10) + 1]
    IN IF n < 10 THEN <<digit>> ELSE decimal(n \div 10) \o <<digit>>

\* mutant: the label of a stream with a language tag is the language alone
audio_label_language(language, audio_idx) ==
    IF language # NoLanguage
    THEN language[1]
    ELSE <<"t", "r", "a", "c", "k", "_">> \o decimal(audio_idx)

\* format!("{}_{}", lang, audio_idx), or format!("track_{}", audio_idx) for a stream
\* without language tag; the same expression names the URI of the master playlist
audio_label(language, audio_idx) ==
    IF language # NoLanguage
    THEN language[1] \o <<"_">> \o decimal(audio_idx)
    ELSE <<"t", "r", "a", "c", "k", "_">> \o decimal(audio_idx)

\* format!("audio_{}", audio_label)
audio_dir(label) == <<"a", "u", "d", "i", "o", "_">> \o label

VariantTask == [st |-> "waiting", enc |-> "none", runs |-> <<>>, seen |-> NoSeen]
AudioTask == [st |-> "waiting", dir |-> <<>>, seen |-> NoSeen]

\* (video_name, created_at) of the existing record, or (None, 0)
existing(map, id) ==
    IF map[id] # NoRecord
    THEN [video_name |-> map[id].video_name, created_at |-> map[id].created_at]
    ELSE NoSeen

\* create hls-<output_id>, probe duration and height, record "FFmpeg processing"
coord_inspect(j) ==
    /\ job_pc[j] = "start"
    /\ \/ /\ job_hls' = [job_hls EXCEPT ![j] = TRUE]
          /\ job_pc' = [job_pc EXCEPT ![j] = "inspected"]
          /\ progress' = update_progress(progress, job_uid[j],
                 ProgressUpdate("FFmpeg processing", 0,
                                Len(get_variants_for_height(job_media[j].height)), 0,
                                "Starting encoding...", "processing", None, None,
                                BodyName, 0))
       \/ \* create_dir_all or ffprobe fails
          /\ job_hls' = [job_hls EXCEPT ![j] = TRUE]
          /\ job_pc' = [job_pc EXCEPT ![j] = "failed"]
          /\ UNCHANGED progress
    /\ UNCHANGED <<now, chunked_uploads, chunk_dirs, reqvars, resp, rejects, config, svcvars, sweep, sse, permits,
                   njobs, job_uid, job_media, job_src, taskvars, master, playlist, up, r2, job_cancelled>>

\* encode_to_hls up to the spawn of the variant, audio, thumbnail and sprite tasks
encode_to_hls_spawn(j) ==
    /\ job_pc[j] = "inspected"
    /\ LET variants == get_variants_for_height(job_media[j].height)
       IN \/ /\ Len(variants) = 0
             \* "No suitable variants for video height"
             /\ job_pc' = [job_pc EXCEPT ![j] = "failed"]
             /\ UNCHANGED <<taskvars, job_media>>
          \/ \* get_video_metadata fails
             /\ job_pc' = [job_pc EXCEPT ![j] = "failed"]
             /\ UNCHANGED <<taskvars, job_media>>
          \/ /\ Len(variants) > 0
             \* get_audio_streams(..).unwrap_or_default(): a failed probe gives no audio
             /\ \E a \in {0, job_media[j].audio} :
                   /\ job_media' = [job_media EXCEPT ![j].audio = a,
                                                      ![j].languages = SubSeq(@, 1, a)]
                   /\ atask' = [atask EXCEPT ![j] = [i \in 1..a |-> AudioTask]]
             /\ vtask' = [vtask EXCEPT ![j] = [i \in 1..Len(variants) |-> VariantTask]]
             /\ ttask' = [ttask EXCEPT ![j] = "running"]
             /\ stask' = [stask EXCEPT ![j] = "running"]
             /\ job_pc' = [job_pc EXCEPT ![j] = "joining"]
    /\ UNCHANGED <<now, chunked_uploads, chunk_dirs, progress, reqvars, resp, rejects, config, svcvars, sweep, sse,
                   permits, njobs, job_uid, job_src, job_hls, master, playlist, up, r2, job_cancelled>>

total_variants(j) == Len(vtask[j]) + Len(atask[j])

jobframe == <<njobs, job_uid, job_pc, job_media, job_src, job_hls, master, playlist, up, r2,
              job_cancelled>>

\* mutant: the variant task starts without waiting for a permit
variant_acquire_unbounded(j, i) ==
    /\ i \in 1..Len(vtask[j])
    /\ vtask[j][i].st = "waiting"
    /\ permits' = permits - 1
    /\ vtask' = [vtask EXCEPT ![j][i].st = "acquired",
                              ![j][i].enc = EncoderType_from_string(config.encoder),
                              ![j][i].seen = existing(progress, job_uid[j])]
    /\ UNCHANGED <<now, chunked_uploads, chunk_dirs, progress, reqvars, resp, rejects, config, svcvars, sweep, sse,
                   jobframe, atask, ttask, stask>>

\* variant task: semaphore.acquire(), create the segment directory, read the record
variant_acquire(j, i) ==
    /\ i \in 1..Len(vtask[j])
    /\ vtask[j][i].st = "waiting"
    /\ permits > 0
    /\ permits' = permits - 1
    /\ vtask' = [vtask EXCEPT ![j][i].st = "acquired",
                              ![j][i].enc = EncoderType_from_string(config.encoder),
                              ![j][i].seen = existing(progress, job_uid[j])]
    /\ UNCHANGED <<now, chunked_uploads, chunk_dirs, progress, reqvars, resp, rejects, config, svcvars, sweep, sse,
                   jobframe, atask, ttask, stask>>

\* variant task: insert the start record, then run ffmpeg with the current encoder
variant_launch(j, i, launched) ==
    /\ i \in 1..Len(vtask[j])
    /\ vtask[j][i].st \in {"acquired", "retry"}
    /\ Len(vtask[j][i].runs) < MaxRuns
    /\ IF vtask[j][i].st = "acquired"
       THEN progress' = insert_progress(progress, job_uid[j],
                ProgressUpdate("FFmpeg processing", i, total_variants(j),
                               Percentage(i, total_variants(j)), "Encoding variant",
                               "processing", None, None,
                               vtask[j][i].seen.video_name, vtask[j][i].seen.created_at))
       ELSE UNCHANGED progress
    /\ IF launched
       THEN /\ vtask' = [vtask EXCEPT ![j][i].st = "running"]
            /\ UNCHANGED permits
       ELSE \* "failed to run ffmpeg": the task ends with an error
            /\ vtask' = [vtask EXCEPT ![j][i].st = "err"]
            /\ permits' = permits + 1
    /\ UNCHANGED <<now, chunked_uploads, chunk_dirs, reqvars, resp, rejects, config, svcvars, sweep, sse,
                   jobframe, atask, ttask, stask>>

\* mutant: the task that ends with an error keeps its permit
variant_exit_keeps_permit(j, i, out) ==
    /\ i \in 1..Len(vtask[j])
    /\ vtask[j][i].st = "running"
    /\ LET t == vtask[j][i]
           log == Append(t.runs, [enc |-> t.enc, exit |-> out])
       IN IF out.success
          THEN /\ vtask' = [vtask EXCEPT ![j][i].st = "encoded", ![j][i].runs = log]
               /\ UNCHANGED <<progress, permits>>
          ELSE IF t.enc # "Cpu" /\ is_hardware_encoder_error(out.stderr)
          THEN \* fall back to the CPU encoder and record it
               /\ vtask' = [vtask EXCEPT ![j][i].st = "retry", ![j][i].runs = log,
                                         ![j][i].enc = fallback_encoder(t.enc)]
               /\ progress' = insert_progress(progress, job_uid[j],
                      ProgressUpdate("FFmpeg processing", i, total_variants(j),
                                     Percentage(i, total_variants(j)),
                                     "Encoding variant - using CPU fallback",
                                     "processing", None, None,
                                     t.seen.video_name, t.seen.created_at))
               /\ UNCHANGED permits
          ELSE \* non-recoverable: the task ends with an error, its permit is dropped
               /\ vtask' = [vtask EXCEPT ![j][i].st = "err", ![j][i].runs = log]
               /\ UNCHANGED <<progress, permits>>
    /\ UNCHANGED <<now, chunked_uploads, chunk_dirs, reqvars, resp, rejects, config, svcvars, sweep, sse,
                   jobframe, atask, ttask, stask>>

\* variant task: the ffmpeg subprocess exits
variant_exit(j, i, out) ==
    /\ i \in 1..Len(vtask[j])
    /\ vtask[j][i].st = "running"
    /\ LET t == vtask[j][i]
           log == Append(t.runs, [enc |-> t.enc, exit |-> out])
       IN IF out.success
          THEN /\ vtask' = [vtask EXCEPT ![j][i].st = "encoded", ![j][i].runs = log]
               /\ UNCHANGED <<progress, permits>>
          ELSE IF t.enc # "Cpu" /\ is_hardware_encoder_error(out.stderr)
          THEN \* fall back to the CPU encoder and record it
               /\ vtask' = [vtask EXCEPT ![j][i].st = "retry", ![j][i].runs = log,
                                         ![j][i].enc = fallback_encoder(t.enc)]
               /\ progress' = insert_progress(progress, job_uid[j],
                      ProgressUpdate("FFmpeg processing", i, total_variants(j),
                                     Percentage(i, total_variants(j)),
                                     "Encoding variant - using CPU fallback",
                                     "processing", None, None,
                                     t.seen.video_name, t.seen.created_at))
               /\ UNCHANGED permits
          ELSE \* non-recoverable: the task ends with an error, its permit is dropped
               /\ vtask' = [vtask EXCEPT ![j][i].st = "err", ![j][i].runs = log]
               /\ permits' = permits + 1
               /\ UNCHANGED progress
    /\ UNCHANGED <<now, chunked_uploads, chunk_dirs, reqvars, resp, rejects, config, svcvars, sweep, sse,
                   jobframe, atask, ttask, stask>>

\* variant task: insert the "Encoded variant" record, return Ok, drop the permit
variant_done(j, i) ==
    /\ i \in 1..Len(vtask[j])
    /\ vtask[j][i].st = "encoded"
    /\ progress' = insert_progress(progress, job_uid[j],
           ProgressUpdate("FFmpeg processing", i, total_variants(j),
                          Percentage(i, total_variants(j)), "Encoded variant",
                          "processing", None, None,
                          vtask[j][i].seen.video_name, vtask[j][i].seen.created_at))
    /\ vtask' = [vtask EXCEPT ![j][i].st = "ok"]
    /\ permits' = permits + 1
    /\ UNCHANGED <<now, chunked_uploads, chunk_dirs, reqvars, resp, rejects, config, svcvars, sweep, sse,
                   jobframe, atask, ttask, stask>>

\* audio task: semaphore.acquire(), create the audio directory, read the record
audio_acquire(j, i) ==
    /\ i \in 1..Len(atask[j])
    /\ atask[j][i].st = "waiting"
    /\ permits > 0
    /\ permits' = permits - 1
    /\ atask' = [atask EXCEPT ![j][i].st = "acquired",
                              ![j][i].dir =
                                  audio_dir(audio_label(job_media[j].languages[i], i - 1)),
                              ![j][i].seen = existing(progress, job_uid[j])]
    /\ UNCHANGED <<now, chunked_uploads, chunk_dirs, progress, reqvars, resp, rejects, config, svcvars, sweep, sse,
                   jobframe, vtask, ttask, stask>>

\* audio task: insert the audio record, then run ffmpeg
audio_launch(j, i, launched) ==
    /\ i \in 1..Len(atask[j])
    /\ atask[j][i].st = "acquired"
    /\ LET cur == Len(vtask[j]) + i
       IN progress' = insert_progress(progress, job_uid[j],
              ProgressUpdate("FFmpeg processing", cur, total_variants(j),
                             Percentage(cur, total_variants(j)), "Encoding audio track",
                             "processing", None, None,
                             atask[j][i].seen.video_name, atask[j][i].seen.created_at))
    /\ IF launched
       THEN /\ atask' = [atask EXCEPT ![j][i].st = "running"]
            /\ UNCHANGED permits
       ELSE \* "failed to run ffmpeg for audio": the task ends with an error
            /\ atask' = [atask EXCEPT ![j][i].st = "err"]
            /\ permits' = permits + 1
    /\ UNCHANGED <<now, chunked_uploads, chunk_dirs, reqvars, resp, rejects, config, svcvars, sweep, sse,
                   jobframe, vtask, ttask, stask>>

\* audio task: the ffmpeg subprocess exits; the permit is dropped
audio_exit(j, i, out) ==
    /\ i \in 1..Len(atask[j])
    /\ atask[j][i].st = "running"
    /\ atask' = [atask EXCEPT ![j][i].st = IF out.success THEN "ok" ELSE "err"]
    /\ permits' = permits + 1
    /\ UNCHANGED <<now, chunked_uploads, chunk_dirs, progress, reqvars, resp, rejects, config, svcvars, sweep, sse,
                   jobframe, vtask, ttask, stask>>

\* thumbnail task: ffmpeg exits (a non-zero exit is only logged) or cannot be run
thumbnail_exit(j, launched) ==
    /\ ttask[j] = "running"
    /\ ttask' = [ttask EXCEPT ![j] = IF launched THEN "ok" ELSE "err"]
    /\ UNCHANGED <<now, chunked_uploads, chunk_dirs, progress, reqvars, resp, rejects, config, svcvars, sweep, sse,
                   permits, jobframe, vtask, atask, stask>>

\* sprite task: ffmpeg exits (a non-zero exit is only logged) or cannot be run
sprite_exit(j, launched) ==
    /\ stask[j] = "running"
    /\ stask' = [stask EXCEPT ![j] = IF launched THEN "ok" ELSE "err"]
    /\ UNCHANGED <<now, chunked_uploads, chunk_dirs, progress, reqvars, resp, rejects, config, svcvars, sweep, sse,
                   permits, jobframe, vtask, atask, ttask>>

\* the results of all tasks of the job, in the order of encode_tasks
TaskStates(j) ==
    {vtask[j][i].st : i \in 1..Len(vtask[j])} \cup {atask[j][i].st : i \in 1..Len(atask[j])}
        \cup {ttask[j], stask[j]}

coordframe == <<now, chunked_uploads, chunk_dirs, reqvars, resp, rejects, config, svcvars, sweep, sse, permits,
                njobs, job_uid, job_media, taskvars, job_cancelled>>

\* mutant: only the default audio track gets an EXT-X-MEDIA entry
master_playlist_default_audio(variants, audio_streams) ==
    [idx \in 1..(IF Len(audio_streams) > 0 THEN 1 ELSE 0) |->
        [tag |-> "EXT-X-MEDIA", group |-> "audio", default |-> TRUE,
         uri |-> <<audio_dir(audio_label(audio_streams[idx], idx - 1)), "index.m3u8">>]]
    \o [i \in 1..Len(variants) |->
        [tag |-> "EXT-X-STREAM-INF", height |-> variants[i], audio |-> Len(audio_streams) > 0,
         uri |-> <<variant_label(variants[i]), "index.m3u8">>]]

\* master_content: one EXT-X-MEDIA line per audio stream (the first is the default),
\* then one EXT-X-STREAM-INF line with its URI per variant, with AUDIO="audio" when
\* there are audio streams
master_playlist(variants, audio_streams) ==
    [idx \in 1..Len(audio_streams) |->
        [tag |-> "EXT-X-MEDIA", group |-> "audio", default |-> idx = 1,
         uri |-> <<audio_dir(audio_label(audio_streams[idx], idx - 1)), "index.m3u8">>]]
    \o [i \in 1..Len(variants) |->
        [tag |-> "EXT-X-STREAM-INF", height |-> variants[i], audio |-> Len(audio_streams) > 0,
         uri |-> <<variant_label(variants[i]), "index.m3u8">>]]

\* mutant: the master playlist is written as soon as the variant tasks are done
encode_to_hls_join_early(j) ==
    /\ job_pc[j] = "joining"
    /\ \/ /\ "err" \in TaskStates(j)
          /\ job_pc' = [job_pc EXCEPT ![j] = "failed"]
          /\ UNCHANGED <<master, playlist>>
       \/ /\ \A i \in 1..Len(vtask[j]) : vtask[j][i].st = "ok"
          /\ master' = [master EXCEPT ![j] = TRUE]
          /\ playlist' = [playlist EXCEPT ![j] =
                 master_playlist(get_variants_for_height(job_media[j].height), job_media[j].languages)]
          /\ job_pc' = [job_pc EXCEPT ![j] = "encoded"]
    /\ UNCHANGED <<coordframe, progress, job_src, job_hls, up, r2>>

\* try_join_all over the task handles, then the master playlist
encode_to_hls_join(j) ==
    /\ job_pc[j] = "joining"
    /\ \/ /\ "err" \in TaskStates(j)
          \* the first error ends the wait; the other tasks keep running
          /\ job_pc' = [job_pc EXCEPT ![j] = "failed"]
          /\ UNCHANGED <<master, playlist>>
       \/ /\ TaskStates(j) = {"ok"}
          /\ \/ /\ master' = [master EXCEPT ![j] = TRUE]
                /\ playlist' = [playlist EXCEPT ![j] =
                       master_playlist(get_variants_for_height(job_media[j].height), job_media[j].languages)]
                /\ job_pc' = [job_pc EXCEPT ![j] = "encoded"]
             \/ \* get_video_height or the write of index.m3u8 fails
                /\ job_pc' = [job_pc EXCEPT ![j] = "failed"]
                /\ UNCHANGED <<master, playlist>>
    /\ UNCHANGED <<coordframe, progress, job_src, job_hls, up, r2>>

\* thumbnail.jpg and sprites.jpg are in the tree only if their ffmpeg run produced them
ThumbFiles == {{}, {<<"thumbnail.jpg">>, <<"sprites.jpg">>}}

\* Uuid::new_v4().to_string() of the job
output_id(j) == CASE j = 1 -> "out-1" [] j = 2 -> "out-2"

\* the files below hls-<output_id>, as paths relative to it; a rendition directory
\* is listed with its playlist
hls_tree(j, extras) ==
    (IF master[j] THEN {<<"index.m3u8">>} ELSE {})
        \cup {<<variant_label(get_variants_for_height(job_media[j].height)[i]), "index.m3u8">> :
                  i \in 1..Len(vtask[j])}
        \cup {<<atask[j][i].dir, "index.m3u8">> : i \in 1..Len(atask[j])}
        \cup extras

\* mutant: every index.m3u8 of the tree is taken for the master playlist
is_master_playlist_any(key) == key[Len(key)] = "index.m3u8"

\* file_name == "index.m3u8" && prefix.matches('/').count() == 1, for the key
\* prefix + file_name given as its components between the '/'
is_master_playlist(key) == key[Len(key)] = "index.m3u8" /\ Len(key) - 1 = 1

\* collect_files: the keys of all files of the tree
collect_files(tree, prefix) == {prefix \o path : path \in tree}

FreeSlot == [pc |-> "free", current |-> 0, seen |-> NoSeen]

\* the futures that buffer_unordered polls at the moment
Uploading(j) == {n \in DOMAIN up[j].slots : up[j].slots[n].pc # "free"}

\* subtitle and attachment extraction, the "Upload to R2" record, collect_files
coord_extract(j, extracted) ==
    /\ job_pc[j] = "encoded"
    /\ \/ \* create_dir_all or extract_all_attachments fails
          /\ job_pc' = [job_pc EXCEPT ![j] = "failed"]
          /\ UNCHANGED <<progress, up>>
       \/ /\ progress' = update_progress(progress, job_uid[j],
                 ProgressUpdate("Upload to R2", 0, 1, 0, "Uploading segments to storage...",
                                "processing", None, None, BodyName, 0))
          /\ \E extras \in ThumbFiles :
                LET files == collect_files(hls_tree(j, extras), <<output_id(j)>>)
                    masters == {key \in files : is_master_playlist(key)}
                IN \E mk \in IF masters = {} THEN {<<>>} ELSE masters :
                      up' = [up EXCEPT ![j] =
                                [files_to_upload |-> files,
                                 master_playlist_key |-> mk,
                                 total |-> Cardinality(files),
                                 pending |-> Cardinality(files),
                                 slots |-> [n \in 1..config.max_concurrent_uploads |-> FreeSlot],
                                 uploaded_count |-> 0,
                                 done |-> 0,
                                 failed |-> 0,
                                 playlist_key |-> <<>>,
                                 saved |-> FALSE,
                                 \* extract_subtitle of a stream failed: logged only
                                 skipped |-> IF extracted THEN {}
                                             ELSE {"subtitle stream"}]]
          /\ job_pc' = [job_pc EXCEPT ![j] = "uploading"]
    /\ UNCHANGED <<coordframe, job_src, job_hls, master, playlist, r2>>

\* upload_hls_to_r2: buffer_unordered starts the future of the next file, which reads
\* the file and sends put_object
upload_start(j) ==
    /\ job_pc[j] = "uploading"
    /\ up[j].pending > 0
    /\ Uploading(j) # DOMAIN up[j].slots
    /\ LET n == CHOOSE n \in DOMAIN up[j].slots \ Uploading(j) :
                    \A m \in DOMAIN up[j].slots \ Uploading(j) : n <= m
       IN up' = [up EXCEPT ![j].pending = @ - 1, ![j].slots[n].pc = "put"]
    /\ UNCHANGED <<coordframe, progress, job_pc, job_src, job_hls, master, playlist, r2>>

\* upload_hls_to_r2: fs::read and put_object of one file settle; on success
\* uploaded_count.fetch_add(1) + 1 is the future's current, on failure it returns Err
upload_finish(j, n, ok) ==
    /\ job_pc[j] = "uploading"
    /\ up[j].slots[n].pc = "put"
    /\ IF ok
       THEN /\ up' = [up EXCEPT ![j].uploaded_count = @ + 1,
                                ![j].slots[n] = [pc |-> "read",
                                                 current |-> up[j].uploaded_count + 1,
                                                 seen |-> NoSeen]]
            /\ r2' = [r2 EXCEPT ![j] = @ + 1]
       ELSE /\ up' = [up EXCEPT ![j].failed = @ + 1, ![j].slots[n] = FreeSlot]
            /\ UNCHANGED r2
    /\ UNCHANGED <<coordframe, progress, job_pc, job_src, job_hls, master, playlist>>

\* upload_hls_to_r2: under the read lock, video_name and created_at of the record
upload_progress_read(j, n) ==
    /\ job_pc[j] = "uploading"
    /\ up[j].slots[n].pc = "read"
    /\ up' = [up EXCEPT ![j].slots[n].pc = "write",
                        ![j].slots[n].seen = existing(progress, job_uid[j])]
    /\ UNCHANGED <<coordframe, progress, job_pc, job_src, job_hls, master, playlist, r2>>

\* upload_hls_to_r2: under the write lock, the insert of the "Upload to R2" record
\* with the future's current; the future returns Ok(key)
upload_progress_write(j, n) ==
    /\ job_pc[j] = "uploading"
    /\ up[j].slots[n].pc = "write"
    /\ LET current == up[j].slots[n].current
           seen == up[j].slots[n].seen
       IN progress' = insert_progress(progress, job_uid[j],
              ProgressUpdate("Upload to R2", current, up[j].total,
                             Percentage(current, up[j].total), "Uploaded files",
                             "processing", None, None,
                             seen.video_name, seen.created_at))
    /\ up' = [up EXCEPT ![j].done = @ + 1, ![j].slots[n] = FreeSlot]
    /\ UNCHANGED <<coordframe, job_pc, job_src, job_hls, master, playlist, r2>>

\* mutant: the call returns at the first failed file
upload_hls_to_r2_return_at_error(j) ==
    /\ job_pc[j] = "uploading"
    /\ up[j].failed > 0 \/ (up[j].pending = 0 /\ Uploading(j) = {})
    /\ job_pc' = [job_pc EXCEPT ![j] = IF up[j].failed > 0 THEN "failed" ELSE "uploaded"]
    /\ up' = [up EXCEPT ![j].playlist_key =
                  IF up[j].failed > 0 THEN <<>> ELSE up[j].master_playlist_key]
    /\ UNCHANGED <<coordframe, progress, job_src, job_hls, master, playlist, r2>>

\* upload_hls_to_r2 returns when every future has returned: the first collected
\* error, or the error of a missing master playlist, or Ok(playlist_key)
upload_hls_to_r2_return(j) ==
    /\ job_pc[j] = "uploading"
    /\ up[j].pending = 0 /\ Uploading(j) = {}
    /\ IF up[j].failed > 0 \/ up[j].master_playlist_key = <<>>
       THEN /\ job_pc' = [job_pc EXCEPT ![j] = "failed"]
            /\ UNCHANGED up
       ELSE /\ job_pc' = [job_pc EXCEPT ![j] = "uploaded"]
            /\ up' = [up EXCEPT ![j].playlist_key = up[j].master_playlist_key]
    /\ UNCHANGED <<coordframe, progress, job_src, job_hls, master, playlist, r2>>

\* the rows saved after save_video
MetadataRows == {"subtitle row", "attachment row", "chapter row"}

\* mutant: a row that cannot be saved fails the job
coord_persist_strict(j, saved, failed_rows) ==
    /\ job_pc[j] = "uploaded"
    /\ IF saved /\ failed_rows = {}
       THEN /\ up' = [up EXCEPT ![j].saved = TRUE]
            /\ job_src' = [job_src EXCEPT ![j] = FALSE]
            /\ job_hls' = [job_hls EXCEPT ![j] = FALSE]
            /\ job_pc' = [job_pc EXCEPT ![j] = "succeeded"]
       ELSE /\ job_pc' = [job_pc EXCEPT ![j] = "failed"]
            /\ up' = [up EXCEPT ![j].saved = saved, ![j].skipped = @ \cup failed_rows]
            /\ UNCHANGED <<job_src, job_hls>>
    /\ UNCHANGED <<coordframe, progress, master, playlist, r2>>

\* save_video and the best-effort rows, then removal of the source and of hls-<id>
coord_persist(j, saved, failed_rows) ==
    /\ job_pc[j] = "uploaded"
    /\ IF saved
       THEN \* save_subtitle, save_attachment, save_chapter: an error is logged only
            /\ up' = [up EXCEPT ![j].saved = TRUE, ![j].skipped = @ \cup failed_rows]
            /\ job_src' = [job_src EXCEPT ![j] = FALSE]
            /\ job_hls' = [job_hls EXCEPT ![j] = FALSE]
            /\ job_pc' = [job_pc EXCEPT ![j] = "succeeded"]
       ELSE /\ job_pc' = [job_pc EXCEPT ![j] = "failed"]
            /\ UNCHANGED <<job_src, job_hls, up>>
    /\ UNCHANGED <<coordframe, progress, master, playlist, r2>>

\* mutant: the player URL is keyed by the upload id
UploadResponse_upload_id(j) ==
    [player_url |-> <<"/player/", job_uid[j]>>, upload_id |-> job_uid[j]]

\* the Ok value of the coordinator's block: the player URL of the output id
UploadResponse(j) ==
    [player_url |-> <<"/player/", output_id(j)>>, upload_id |-> job_uid[j]]

\* mutant: the failed record carries no error text
coord_record_no_error(j) ==
    /\ job_pc[j] \in {"succeeded", "failed"}
    /\ progress' = update_progress(progress, job_uid[j],
           IF job_pc[j] = "succeeded"
           THEN ProgressUpdate("Completed", 1, 1, 100, "Upload and processing complete",
                               "completed", UploadResponse(j), None, BodyName, 0)
           ELSE ProgressUpdate("Failed", 0, 1, 0, "Processing failed", "failed",
                               None, None, BodyName, 0))
    /\ job_pc' = [job_pc EXCEPT ![j] = "sleeping"]
    /\ UNCHANGED <<coordframe, job_src, job_hls, master, playlist, up, r2>>

\* match result: the Completed or the Failed record
coord_record(j) ==
    /\ job_pc[j] \in {"succeeded", "failed"}
    /\ progress' = update_progress(progress, job_uid[j],
           IF job_pc[j] = "succeeded"
           THEN ProgressUpdate("Completed", 1, 1, 100, "Upload and processing complete",
                               "completed", UploadResponse(j), None, BodyName, 0)
           ELSE ProgressUpdate("Failed", 0, 1, 0, "Processing failed", "failed",
                               None, "error", BodyName, 0))
    /\ job_pc' = [job_pc EXCEPT ![j] = "sleeping"]
    /\ UNCHANGED <<coordframe, job_src, job_hls, master, playlist, up, r2>>

\* after the 10 s sleep: a terminal record of the id is removed
coord_evict(j) ==
    /\ job_pc[j] = "sleeping"
    /\ progress' = [progress EXCEPT ![job_uid[j]] =
                        IF @ # NoRecord /\ @.status \in {"completed", "failed"}
                        THEN NoRecord ELSE @]
    /\ job_pc' = [job_pc EXCEPT ![j] = "end"]
    /\ UNCHANGED <<coordframe, job_src, job_hls, master, playlist, up, r2>>

\* every step of the coordinators and of the tasks they spawned
Background ==
    \/ \E j \in JobIds : coord_inspect(j)
    \/ \E j \in JobIds : encode_to_hls_spawn(j)
    \/ \E j \in JobIds, i \in 1..Len(all_variants) : variant_acquire(j, i)
    \/ \E j \in JobIds, i \in 1..Len(all_variants), l \in BOOLEAN : variant_launch(j, i, l)
    \/ \E j \in JobIds, i \in 1..Len(all_variants), out \in Exits : variant_exit(j, i, out)
    \/ \E j \in JobIds, i \in 1..Len(all_variants) : variant_done(j, i)
    \/ \E j \in JobIds : \E i \in 1..Len(atask[j]) : audio_acquire(j, i)
    \/ \E j \in JobIds, l \in BOOLEAN : \E i \in 1..Len(atask[j]) : audio_launch(j, i, l)
    \/ \E j \in JobIds, out \in Exits : \E i \in 1..Len(atask[j]) : audio_exit(j, i, out)
    \/ \E j \in JobIds, l \in BOOLEAN : thumbnail_exit(j, l)
    \/ \E j \in JobIds, l \in BOOLEAN : sprite_exit(j, l)
    \/ \E j \in JobIds : encode_to_hls_join(j)
    \/ \E j \in JobIds : coord_extract(j, TRUE)
    \/ \E j \in JobIds : upload_start(j)
    \/ \E j \in JobIds, ok \in BOOLEAN : \E n \in DOMAIN up[j].slots : upload_finish(j, n, ok)
    \/ \E j \in JobIds : \E n \in DOMAIN up[j].slots : upload_progress_read(j, n)
    \/ \E j \in JobIds : \E n \in DOMAIN up[j].slots : upload_progress_write(j, n)
    \/ \E j \in JobIds : upload_hls_to_r2_return(j)
    \/ \E j \in JobIds, saved \in BOOLEAN : coord_persist(j, saved, {})
    \/ \E j \in JobIds : coord_record(j)
    \/ \E j \in JobIds : coord_evict(j)

\* ------------------------------------------------------------------------
\* The lock steps of the handlers and tasks (upload.rs)
\* ------------------------------------------------------------------------
Acquire(lock, mode) == [op |-> "acquire", lock |-> lock, mode |-> mode]
Release(lock) == [op |-> "release", lock |-> lock, mode |-> "none"]

\* the .read().await / .write().await calls of a task and the ends of their guards, in
\* program order
LockProgram(t) ==
    CASE t = "upload_chunk" ->
            \* first chunk of an id: the registry insert inside the session section, then
            \* the mark section, the count section and update_progress
            <<Acquire("chunked_uploads", "write"), Acquire("progress", "write"),
              Release("progress"), Release("chunked_uploads"),
              Acquire("chunked_uploads", "write"), Release("chunked_uploads"),
              Acquire("chunked_uploads", "read"), Release("chunked_uploads"),
              Acquire("progress", "write"), Release("progress")>>
      [] t = "finalize_chunked_upload" ->
            <<Acquire("chunked_uploads", "write"), Release("chunked_uploads"),
              Acquire("progress", "write"), Release("progress")>>
      [] t = "cancel_queue" ->
            <<Acquire("progress", "write"), Release("progress"),
              Acquire("chunked_uploads", "write"), Release("chunked_uploads")>>
      [] t = "cleanup_stale_uploads" ->
            <<Acquire("chunked_uploads", "read"), Release("chunked_uploads"),
              Acquire("chunked_uploads", "write"), Acquire("progress", "write"),
              Release("progress"), Release("chunked_uploads")>>
      [] t = "cleanup_uploads" ->
            <<Acquire("progress", "read"), Acquire("chunked_uploads", "write"),
              Release("chunked_uploads"), Release("progress"),
              Acquire("progress", "write"), Release("progress"),
              Acquire("chunked_uploads", "read"), Release("chunked_uploads")>>
      [] t = "list_queues" -> <<Acquire("progress", "read"), Release("progress")>>
      [] t = "coordinator" -> <<Acquire("progress", "write"), Release("progress")>>

\* the step a task is at, if it is inside its program
AtStep(t) == t \in DOMAIN lk.pc /\ lk.pc[t] \in 1..Len(LockProgram(t))

\* RwLock: a write needs the lock free, a read needs it free of a writer
Grantable(lock, mode) ==
    \A h \in lk.held : h.lock = lock => (mode = "read" /\ h.mode = "read")

lockframe == <<now, chunked_uploads, chunk_dirs, progress, reqvars, resp, rejects, config,
               sweep, sse, permits, jobvars, mp, cleanup>>

\* a request arrives or a task is spawned: the task enters its program
lock_begin(t) ==
    /\ t \notin DOMAIN lk.pc
    /\ lk' = [lk EXCEPT !.pc = [x \in DOMAIN @ \cup {t} |-> IF x = t THEN 1 ELSE @[x]]]
    /\ UNCHANGED lockframe

\* .read().await or .write().await returns the guard
lock_acquire(t) ==
    /\ AtStep(t)
    /\ LET step == LockProgram(t)[lk.pc[t]]
       IN /\ step.op = "acquire"
          /\ Grantable(step.lock, step.mode)
          /\ lk' = [lk EXCEPT !.pc[t] = @ + 1,
                              !.held = @ \cup {[task |-> t, lock |-> step.lock,
                                                mode |-> step.mode]}]
    /\ UNCHANGED lockframe

\* the guard goes out of scope or is dropped
lock_release(t) ==
    /\ AtStep(t)
    /\ LET step == LockProgram(t)[lk.pc[t]]
       IN /\ step.op = "release"
          /\ lk' = [lk EXCEPT !.pc[t] = @ + 1,
                              !.held = {h \in @ : ~(h.task = t /\ h.lock = step.lock)}]
    /\ UNCHANGED lockframe

\* the handler returns
lock_end(t) ==
    /\ t \in DOMAIN lk.pc
    /\ lk.pc[t] = Len(LockProgram(t)) + 1
    /\ lk' = [lk EXCEPT !.pc = [x \in DOMAIN @ \ {t} |-> @[x]]]
    /\ UNCHANGED lockframe

\* ------------------------------------------------------------------------
\* upload_large_file_to_r2 (storage.rs)
\* ------------------------------------------------------------------------
MULTIPART_THRESHOLD == 100 * 1024 * 1024
MULTIPART_PART_SIZE == 100 * 1024 * 1024

svcframe == <<now, chunked_uploads, chunk_dirs, progress, reqvars, resp, rejects, config,
              sweep, sse, permits, jobvars>>

\* return of the call with its Result
upload_large_return(m, result) == [m EXCEPT !.pc = "returned", !.result = result]

\* fs::metadata, then the choice between the single put and the multipart upload
upload_large_begin(file_size, metadata_ok) ==
    /\ mp.pc \in {"idle", "returned"}
    /\ mp' = IF ~metadata_ok
             THEN upload_large_return(NoMultipart, "Failed to get metadata")
             ELSE [NoMultipart EXCEPT !.file_size = file_size, !.remaining = file_size,
                                      !.pc = IF file_size < MULTIPART_THRESHOLD
                                             THEN "put" ELSE "create"]
    /\ UNCHANGED <<svcframe, lk, cleanup>>

\* read_file_chunked and put_object of a file below the threshold
upload_large_put(read_ok, put_ok) ==
    /\ mp.pc = "put"
    /\ mp' = IF ~read_ok THEN upload_large_return(mp, "read error")
             ELSE IF ~put_ok THEN upload_large_return(mp, "Failed to upload")
             ELSE upload_large_return([mp EXCEPT !.puts = 1], "Ok")
    /\ UNCHANGED <<svcframe, lk, cleanup>>

\* create_multipart_upload, the upload_id of its response, File::open
upload_large_create(created, has_upload_id, opened) ==
    /\ mp.pc = "create"
    /\ mp' = IF ~created
             THEN upload_large_return(mp, "Failed to initiate multipart upload")
             ELSE IF ~has_upload_id
             THEN \* a response without upload_id names no session that could be aborted
                  upload_large_return(mp, "No upload_id returned")
             ELSE IF ~opened
             THEN upload_large_return([mp EXCEPT !.session = "open"], "Failed to open")
             ELSE [mp EXCEPT !.session = "open", !.pc = "read"]
    /\ UNCHANGED <<svcframe, lk, cleanup>>

\* the read of the next part: up to MULTIPART_PART_SIZE bytes; no byte ends the loop
upload_large_read(read_ok) ==
    /\ mp.pc = "read"
    /\ LET n == IF mp.remaining < MULTIPART_PART_SIZE THEN mp.remaining
                ELSE MULTIPART_PART_SIZE
       IN mp' = IF ~read_ok THEN upload_large_return(mp, "read error")
                ELSE IF n = 0 THEN [mp EXCEPT !.pc = "complete", !.bytes_read = 0]
                ELSE [mp EXCEPT !.pc = "part", !.bytes_read = n, !.remaining = @ - n]
    /\ UNCHANGED <<svcframe, lk, cleanup>>

\* upload_part; on its error abort_multipart_upload is sent and its result ignored
upload_large_part(part_ok, aborted) ==
    /\ mp.pc = "part"
    /\ mp' = IF part_ok
             THEN [mp EXCEPT !.completed_parts = @ + 1, !.part_number = @ + 1, !.pc = "read"]
             ELSE upload_large_return(
                      [mp EXCEPT !.abort_issued = TRUE,
                                 !.session = IF aborted THEN "aborted" ELSE "open"],
                      "Failed to upload part")
    /\ UNCHANGED <<svcframe, lk, cleanup>>

\* complete_multipart_upload
upload_large_complete(completed) ==
    /\ mp.pc = "complete"
    /\ mp' = IF completed
             THEN upload_large_return([mp EXCEPT !.session = "completed"], "Ok")
             ELSE upload_large_return(mp, "Failed to complete multipart upload")
    /\ UNCHANGED <<svcframe, lk, cleanup>>

\* ------------------------------------------------------------------------
\* cleanup_stale_uploads
\* ------------------------------------------------------------------------
\* Stale upload timeout: 30 minutes of inactivity
STALE_UPLOAD_TIMEOUT_MS == 30 * 60 * 1000

\* u64::saturating_sub
saturating_sub(a, b) == IF a >= b THEN a - b ELSE 0

\* mutant: a session is stale only after twice the window
is_stale_late(t, s) == saturating_sub(t, s.last_activity) > 2 * STALE_UPLOAD_TIMEOUT_MS

\* now.saturating_sub(upload.last_activity) > STALE_UPLOAD_TIMEOUT_MS
is_stale(t, s) == saturating_sub(t, s.last_activity) > STALE_UPLOAD_TIMEOUT_MS

\* the clock advances by the stale window
Lapse ==
    /\ NoRequest
    /\ now <= MaxTime
    /\ now' = now + STALE_UPLOAD_TIMEOUT_MS
    /\ UNCHANGED <<chunked_uploads, chunk_dirs, progress, reqvars, resp,
                   rejects, config, svcvars, sweep, sse, permits, jobvars>>

\* the task spawned by upload_chunk (of any id, when chunk_index % 10 == 0): under the
\* read lock it collects the ids of the sessions that are stale at its now_millis();
\* with none it ends
cleanup_stale_uploads_scan ==
    /\ sweep.pc # "remove"
    /\ LET to_remove == {u \in UploadIds : chunked_uploads[u] # NoSession
                                            /\ is_stale(now, chunked_uploads[u])}
       IN sweep' = [pc |-> IF to_remove = {} THEN "done" ELSE "remove",
                    now |-> now, ids |-> to_remove]
    /\ UNCHANGED <<now, chunked_uploads, chunk_dirs, progress, reqvars, resp,
                   rejects, config, svcvars, sse, permits, jobvars>>

\* under the write locks of both maps: uploads.remove, progress_map.remove and
\* fs::remove_dir_all of the temp_dir, for every collected id
cleanup_stale_uploads_remove ==
    /\ sweep.pc = "remove"
    /\ chunked_uploads' = [u \in UploadIds |->
           IF u \in sweep.ids THEN NoSession ELSE chunked_uploads[u]]
    /\ progress' = [u \in UploadIds |->
           IF u \in sweep.ids THEN NoRecord ELSE progress[u]]
    /\ chunk_dirs' = [u \in UploadIds |->
           IF u \in sweep.ids THEN NoDir ELSE chunk_dirs[u]]
    /\ sweep' = [sweep EXCEPT !.pc = "done"]
    /\ UNCHANGED <<now, reqvars, resp, rejects, config, svcvars, sse, permits, jobvars>>

\* ------------------------------------------------------------------------
\* cleanup_uploads
\* ------------------------------------------------------------------------
\* progress entries that are not terminal count as stuck after one hour
STUCK_PROGRESS_MS == 60 * 60 * 1000

cleanupframe == <<reqvars, resp, rejects, config, mp, lk, sweep, sse, permits, jobvars>>

\* first section, under progress.read() and chunked_uploads.write(): the sessions that
\* are stale or have no progress entry are removed with their temp_dir
cleanup_uploads_sessions ==
    /\ cleanup.pc = "idle"
    /\ LET to_remove == {u \in UploadIds : /\ chunked_uploads[u] # NoSession
                                            /\ \/ is_stale(now, chunked_uploads[u])
                                               \/ progress[u] = NoRecord}
       IN /\ chunked_uploads' = [u \in UploadIds |->
                 IF u \in to_remove THEN NoSession ELSE chunked_uploads[u]]
          /\ chunk_dirs' = [u \in UploadIds |->
                 IF u \in to_remove THEN NoDir ELSE chunk_dirs[u]]
          /\ cleanup' = [pc |-> "progress", now |-> now, entries |-> {},
                         cleaned_uploads |-> Cardinality(to_remove), cleaned_progress |-> 0]
    /\ UNCHANGED <<now, progress, cleanupframe>>

\* second section, under progress.write(): the entries that are neither completed nor
\* failed and were created more than an hour before the call's now are removed
cleanup_uploads_progress ==
    /\ cleanup.pc = "progress"
    /\ LET hour_ago == saturating_sub(cleanup.now, STUCK_PROGRESS_MS)
           to_remove == {u \in UploadIds : /\ progress[u] # NoRecord
                                            /\ progress[u].status # "completed"
                                            /\ progress[u].status # "failed"
                                            /\ progress[u].created_at < hour_ago}
       IN /\ progress' = [u \in UploadIds |->
                 IF u \in to_remove THEN NoRecord ELSE progress[u]]
          /\ cleanup' = [cleanup EXCEPT !.pc = "read_dir",
                                        !.cleaned_progress = Cardinality(to_remove)]
    /\ UNCHANGED <<now, chunked_uploads, chunk_dirs, cleanupframe>>

\* read_dir of the temp directory: the entries named chunked-<id>
cleanup_uploads_read_dir ==
    /\ cleanup.pc = "read_dir"
    /\ cleanup' = [cleanup EXCEPT !.pc = "entries",
                                  !.entries = {u \in UploadIds : chunk_dirs[u].exists}]
    /\ UNCHANGED <<now, chunked_uploads, chunk_dirs, progress, cleanupframe>>

\* one entry, under chunked_uploads.read(): a directory whose id has no session is
\* removed; the result of remove_dir_all is dropped
cleanup_uploads_entry(u) ==
    /\ cleanup.pc = "entries"
    /\ u \in cleanup.entries
    /\ IF chunked_uploads[u] = NoSession
       THEN /\ chunk_dirs' = [chunk_dirs EXCEPT ![u] = NoDir]
            /\ cleanup' = [cleanup EXCEPT !.entries = @ \ {u},
                                          !.cleaned_uploads = @ + 1]
       ELSE /\ cleanup' = [cleanup EXCEPT !.entries = @ \ {u}]
            /\ UNCHANGED chunk_dirs
    /\ UNCHANGED <<now, chunked_uploads, progress, cleanupframe>>

\* Ok(Json(CleanupResponse)) with the two counters
cleanup_uploads_return ==
    /\ cleanup.pc = "entries"
    /\ cleanup.entries = {}
    /\ cleanup' = [cleanup EXCEPT !.pc = "idle"]
    /\ UNCHANGED <<now, chunked_uploads, chunk_dirs, progress, cleanupframe>>

\* ------------------------------------------------------------------------
\* list_queues
\* ------------------------------------------------------------------------
QueueItem(id, p) ==
    [upload_id |-> id, stage |-> p.stage, current_chunk |-> p.current_chunk,
     total_chunks |-> p.total_chunks, percentage |-> p.percentage, details |-> p.details,
     status |-> p.status, video_name |-> p.video_name, created_at |-> p.created_at]

\* mutant: the items stay in the iteration order of the map
sort_by_key_none(items) == items

RECURSIVE sort_by_key(_)
\* items.sort_by_key(|item| item.created_at): a stable sort
sort_by_key(items) ==
    IF items = <<>> THEN <<>>
    ELSE LET n == Len(items)
             x == items[n]
             sorted == sort_by_key(SubSeq(items, 1, n - 1))
             p == Cardinality({k \in 1..Len(sorted) : sorted[k].created_at <= x.created_at})
         IN SubSeq(sorted, 1, p) \o <<x>> \o SubSeq(sorted, p + 1, Len(sorted))

\* items.iter().filter(|i| i.status == ..).count() for the given statuses
count_status(items, statuses) ==
    Cardinality({k \in 1..Len(items) : items[k].status \in statuses})

\* list_queues under the read lock; order is the iteration order of the HashMap
list_queues(order) ==
    /\ LET Present(id) == progress[id] # NoRecord
           ids == SelectSeq(order, Present)
           items == sort_by_key([k \in 1..Len(ids) |-> QueueItem(ids[k], progress[ids[k]])])
       IN resp' = [op |-> "list_queues", uid |-> None, code |-> "ok",
                   chunk_index |-> -1, total_chunks |-> -1,
                   items |-> items,
                   active_count |-> count_status(items, {"processing", "initializing"}),
                   completed_count |-> count_status(items, {"completed"}),
                   failed_count |-> count_status(items, {"failed"})]
    /\ UNCHANGED <<now, chunked_uploads, chunk_dirs, progress, reqvars,
                   rejects, config, svcvars, sweep, sse, permits, jobvars>>

\* ------------------------------------------------------------------------
\* get_progress (the server-sent event stream of an upload id)
\* ------------------------------------------------------------------------
\* Duration::from_secs(60), in milliseconds
STREAM_TIMEOUT_MS == 60 * 1000

\* the clock advances by the bounded wait of a stream
Minute ==
    /\ NoRequest
    /\ now <= MaxTime
    /\ now' = now + STREAM_TIMEOUT_MS
    /\ UNCHANGED <<chunked_uploads, chunk_dirs, progress, reqvars, resp,
                   rejects, config, svcvars, sweep, sse, permits, jobvars>>

ProgressResponse(p) ==
    [event |-> "message", stage |-> p.stage, current_chunk |-> p.current_chunk,
     total_chunks |-> p.total_chunks, percentage |-> p.percentage, details |-> p.details,
     status |-> p.status, result |-> p.result, error |-> p.error]

\* the stream starts: without the admin token it yields one error event and ends
get_progress_open(u, is_authorized) ==
    /\ sse[u].pc = "none"
    /\ sse' = [sse EXCEPT ![u] =
                  IF is_authorized
                  THEN [pc |-> "poll", start_time |-> now, event |-> NoEvent]
                  ELSE [pc |-> "ended", start_time |-> now,
                        event |-> [event |-> "error", data |-> "Unauthorized"]]]
    /\ UNCHANGED <<now, chunked_uploads, chunk_dirs, progress, reqvars, resp,
                   rejects, config, svcvars, sweep, permits, jobvars>>

\* one round of the loop: the record is read under the read lock and yielded as an
\* event, and a terminal one ends the loop; without record the loop ends with an
\* error event once start_time.elapsed() > timeout
get_progress_poll(u) ==
    /\ sse[u].pc = "poll"
    /\ LET p == progress[u]
       IN IF p # NoRecord
          THEN sse' = [sse EXCEPT ![u].event = ProgressResponse(p),
                                  ![u].pc = IF p.status = "completed" \/ p.status = "failed"
                                            THEN "closing" ELSE "poll"]
          ELSE IF now - sse[u].start_time > STREAM_TIMEOUT_MS
          THEN sse' = [sse EXCEPT ![u].event = [event |-> "error",
                                                data |-> "Upload ID not found (timeout)"],
                                  ![u].pc = "ended"]
          ELSE UNCHANGED sse
    /\ UNCHANGED <<now, chunked_uploads, chunk_dirs, progress, reqvars, resp,
                   rejects, config, svcvars, sweep, permits, jobvars>>

\* after the 3 s sleep that follows a terminal event the stream ends
get_progress_close(u) ==
    /\ sse[u].pc = "closing"
    /\ sse' = [sse EXCEPT ![u].pc = "ended"]
    /\ UNCHANGED <<now, chunked_uploads, chunk_dirs, progress, reqvars, resp,
                   rejects, config, svcvars, sweep, permits, jobvars>>

\* ------------------------------------------------------------------------
\* Specifications
\* ------------------------------------------------------------------------
\* server.max_concurrent_uploads of the modelled configurations
Cfg(encoder, encodes) ==
    [encoder |-> encoder, max_concurrent_encodes |-> encodes, max_concurrent_uploads |-> 2]

\* Spec: the chunked upload handlers and cancel_queue, called one at a time, with the
\* coordinator of a source below the ladder (height 360)
LowMedia == {[height |-> 360, audio |-> 0, languages |-> <<>>]}

Init == InitWith({Cfg({}, 1)})

Next ==
    \/ Tick(TRUE)
    \/ \E u \in UploadIds, idx \in 0..MaxChunks, tot \in 0..MaxChunks, body \in OneBody :
           upload_chunk_begin(u, idx, tot, body, TRUE)
    \/ \E u \in UploadIds : upload_chunk_write(u)
    \/ \E u \in UploadIds : upload_chunk_mark(u)
    \/ \E u \in UploadIds : upload_chunk_count(u)
    \/ \E u \in UploadIds : upload_chunk_progress(u)
    \/ \E u \in UploadIds : finalize_take(u, TRUE, 1)
    \/ \E u \in UploadIds : finalize_assembling(u)
    \/ \E u \in UploadIds : finalize_assemble(u)
    \/ \E u \in UploadIds : finalize_queue(u, 1, LowMedia)
    \/ \E u \in UploadIds : cancel_queue_mark(u, TRUE)
    \/ \E u \in UploadIds : cancel_queue_cleanup(u)
    \/ \E j \in JobIds : coord_inspect(j)
    \/ \E j \in JobIds : encode_to_hls_spawn(j)
    \/ \E j \in JobIds : coord_record(j)
    \/ \E j \in JobIds : coord_evict(j)

Spec == Init /\ [][Next]_vars

\* SpecEncode: one direct upload, cancel_queue, and the whole coordinator with its
\* encode and upload tasks, for a software and a hardware encoder
EncodeMedia == {[height |-> 720, audio |-> 1, languages |-> <<NoLanguage>>]}

InitEncode == InitWith({Cfg({}, 1), Cfg({"nvenc"}, 2)})

NextEncode ==
    \/ \E u \in UploadIds : upload_video_begin(u, TRUE, 1)
    \/ \E u \in UploadIds : upload_video_chunk(u)
    \/ \E u \in UploadIds : upload_video_fail(u)
    \/ \E u \in UploadIds : upload_video_queue(u, 1, EncodeMedia)
    \/ \E u \in UploadIds : cancel_queue_mark(u, TRUE)
    \/ \E u \in UploadIds : cancel_queue_cleanup(u)
    \/ Background

SpecEncode == InitEncode /\ [][NextEncode]_vars

\* SpecPool: two direct uploads whose coordinators run at the same time and share the
\* one ffmpeg_semaphore, with max_concurrent_uploads = 1
PoolMedia == {[height |-> 480, audio |-> 0, languages |-> <<>>]}

InitPool == InitWith({[Cfg({}, 1) EXCEPT !.max_concurrent_uploads = 1]})

NextPool ==
    \/ \E u \in UploadIds : upload_video_begin(u, TRUE, 2)
    \/ \E u \in UploadIds : upload_video_chunk(u)
    \/ \E u \in UploadIds : upload_video_fail(u)
    \/ \E u \in UploadIds : upload_video_queue(u, 2, PoolMedia)
    \/ \E j \in JobIds : coord_inspect(j)
    \/ \E j \in JobIds : encode_to_hls_spawn(j)
    \/ \E j \in JobIds, i \in 1..Len(all_variants) : variant_acquire(j, i)
    \/ \E j \in JobIds, i \in 1..Len(all_variants), l \in BOOLEAN : variant_launch(j, i, l)
    \/ \E j \in JobIds, i \in 1..Len(all_variants), out \in Exits : variant_exit(j, i, out)
    \/ \E j \in JobIds, i \in 1..Len(all_variants) : variant_done(j, i)
    \/ \E j \in JobIds, l \in BOOLEAN : thumbnail_exit(j, l)
    \/ \E j \in JobIds, l \in BOOLEAN : sprite_exit(j, l)
    \/ \E j \in JobIds : encode_to_hls_join(j)
    \/ \E j \in JobIds : coord_extract(j, TRUE)
    \/ \E j \in JobIds : upload_start(j)
    \/ \E j \in JobIds, ok \in BOOLEAN : \E n \in DOMAIN up[j].slots : upload_finish(j, n, ok)
    \/ \E j \in JobIds : \E n \in DOMAIN up[j].slots : upload_progress_read(j, n)
    \/ \E j \in JobIds : \E n \in DOMAIN up[j].slots : upload_progress_write(j, n)
    \/ \E j \in JobIds : upload_hls_to_r2_return(j)
    \/ \E j \in JobIds, saved \in BOOLEAN : coord_persist(j, saved, {})
    \/ \E j \in JobIds : coord_record(j)
    \/ \E j \in JobIds : coord_evict(j)

SpecPool == InitPool /\ [][NextPool]_vars

\* SpecSweep: chunk uploads and cancel_queue, called one at a time, next to the stale
\* sweep, on a clock that can pass the stale window
InitSweep == InitWith({Cfg({}, 1)})

NextSweep ==
    \/ Tick(TRUE)
    \/ Lapse
    \/ \E u \in UploadIds, idx \in 0..MaxChunks, tot \in 0..MaxChunks, body \in OneBody :
           upload_chunk_begin(u, idx, tot, body, TRUE)
    \/ \E u \in UploadIds : upload_chunk_write(u)
    \/ \E u \in UploadIds : upload_chunk_mark(u)
    \/ \E u \in UploadIds : upload_chunk_count(u)
    \/ \E u \in UploadIds : upload_chunk_progress(u)
    \/ \E u \in UploadIds : cancel_queue_mark(u, TRUE)
    \/ \E u \in UploadIds : cancel_queue_cleanup(u)
    \/ cleanup_stale_uploads_scan
    \/ cleanup_stale_uploads_remove

SpecSweep == InitSweep /\ [][NextSweep]_vars

\* SpecLadder: one direct upload of a source of any of the heights around the ladder
\* members, up to the point where encode_to_hls has spawned its tasks or has failed
LadderMedia ==
    {[height |-> h, audio |-> 0, languages |-> <<>>] :
        h \in {0, 360, 479, 480, 481, 719, 720, 1079, 1080, 1440, 2159, 2160, 4320}}

InitLadder == InitWith({Cfg({}, 1)})

NextLadder ==
    \/ \E u \in UploadIds : upload_video_begin(u, TRUE, 1)
    \/ \E u \in UploadIds : upload_video_chunk(u)
    \/ \E u \in UploadIds : upload_video_fail(u)
    \/ \E u \in UploadIds : upload_video_queue(u, 1, LadderMedia)
    \/ \E u \in UploadIds : cancel_queue_mark(u, TRUE)
    \/ \E u \in UploadIds : cancel_queue_cleanup(u)
    \/ \E j \in JobIds : coord_inspect(j)
    \/ \E j \in JobIds : encode_to_hls_spawn(j)
    \/ \E j \in JobIds : coord_record(j)
    \/ \E j \in JobIds : coord_evict(j)

SpecLadder == InitLadder /\ [][NextLadder]_vars

\* SpecMaster: one direct upload of a 2160 source with two audio streams on a pool of
\* one permit; every ffmpeg run of a variant or audio task succeeds
MasterMedia == {[height |-> 2160, audio |-> 2, languages |-> <<NoLanguage, NoLanguage>>]}

InitMaster == InitWith({Cfg({}, 1)})

NextMaster ==
    \/ \E u \in UploadIds : upload_video_begin(u, TRUE, 1)
    \/ \E u \in UploadIds : upload_video_chunk(u)
    \/ \E u \in UploadIds : upload_video_fail(u)
    \/ \E u \in UploadIds : upload_video_queue(u, 1, MasterMedia)
    \/ \E j \in JobIds : coord_inspect(j)
    \/ \E j \in JobIds : encode_to_hls_spawn(j)
    \/ \E j \in JobIds, i \in 1..Len(all_variants) : variant_acquire(j, i)
    \/ \E j \in JobIds, i \in 1..Len(all_variants) : variant_launch(j, i, TRUE)
    \/ \E j \in JobIds, i \in 1..Len(all_variants) : variant_exit(j, i, ExitOk)
    \/ \E j \in JobIds, i \in 1..Len(all_variants) : variant_done(j, i)
    \/ \E j \in JobIds : \E i \in 1..Len(atask[j]) : audio_acquire(j, i)
    \/ \E j \in JobIds : \E i \in 1..Len(atask[j]) : audio_launch(j, i, TRUE)
    \/ \E j \in JobIds : \E i \in 1..Len(atask[j]) : audio_exit(j, i, ExitOk)
    \/ \E j \in JobIds, l \in BOOLEAN : thumbnail_exit(j, l)
    \/ \E j \in JobIds, l \in BOOLEAN : sprite_exit(j, l)
    \/ \E j \in JobIds : encode_to_hls_join(j)
    \/ \E j \in JobIds : coord_record(j)
    \/ \E j \in JobIds : coord_evict(j)

SpecMaster == InitMaster /\ [][NextMaster]_vars

\* SpecQueue: list_queues on a registry of up to three records, in every iteration
\* order of the map
QueueIds == {"u1", "u2", "u3"}

\* the records of the four statuses, with the created_at values of the clock and the 0
\* of a record first written by update_progress
QueueRecords ==
    {ProgressUpdate("Initializing upload", 0, 1, 0, "Waiting for file data...",
                    "initializing", None, None, None, t) : t \in 1..MaxTime}
    \cup {ProgressUpdate("Queued for processing", 0, 1, 0, None, "processing",
                         None, None, BodyName, t) : t \in 0..MaxTime}
    \cup {ProgressUpdate("Completed", 1, 1, 100, "Upload and processing complete",
                         "completed", 1, None, BodyName, t) : t \in 0..MaxTime}
    \cup {ProgressUpdate("Failed", 0, 1, 0, "Processing failed", "failed",
                         None, "error", BodyName, t) : t \in 0..MaxTime}

\* the orders in which the map can iterate over its keys
Orders == {o \in [1..Cardinality(QueueIds) -> QueueIds] : \A a, b \in DOMAIN o : o[a] = o[b] => a = b}

InitQueue ==
    /\ InitState({Cfg({}, 1)})
    /\ progress \in [QueueIds -> QueueRecords \cup {NoRecord}]

NextQueue == \E order \in Orders : list_queues(order)

SpecQueue == InitQueue /\ [][NextQueue]_vars

\* SpecStream: one progress stream next to one direct upload of a source below the
\* ladder, on a clock that can pass the bounded wait of the stream
InitStream == InitWith({Cfg({}, 1)})

NextStream ==
    \/ Tick(TRUE)
    \/ Minute
    \/ \E u \in UploadIds : upload_video_begin(u, TRUE, 1)
    \/ \E u \in UploadIds : upload_video_chunk(u)
    \/ \E u \in UploadIds : upload_video_fail(u)
    \/ \E u \in UploadIds : upload_video_queue(u, 1, LowMedia)
    \/ \E j \in JobIds : coord_inspect(j)
    \/ \E j \in JobIds : encode_to_hls_spawn(j)
    \/ \E j \in JobIds : coord_record(j)
    \/ \E j \in JobIds : coord_evict(j)
    \/ \E u \in UploadIds, is_authorized \in BOOLEAN : get_progress_open(u, is_authorized)
    \/ \E u \in UploadIds : get_progress_poll(u)
    \/ \E u \in UploadIds : get_progress_close(u)

SpecStream == InitStream /\ [][NextStream]_vars

\* SpecAssemble: chunked uploads whose chunks carry different bodies, arrive in any order
\* and are sent again, then finalize
InitAssemble == InitWith({Cfg({}, 1)})

NextAssemble ==
    \/ \E u \in UploadIds, idx \in 0..MaxChunks, tot \in 0..MaxChunks, body \in Bodies :
           upload_chunk_begin(u, idx, tot, body, TRUE)
    \/ \E u \in UploadIds : upload_chunk_write(u)
    \/ \E u \in UploadIds : upload_chunk_mark(u)
    \/ \E u \in UploadIds : upload_chunk_count(u)
    \/ \E u \in UploadIds : upload_chunk_progress(u)
    \/ \E u \in UploadIds : finalize_take(u, TRUE, 1)
    \/ \E u \in UploadIds : finalize_assembling(u)
    \/ \E u \in UploadIds : finalize_assemble(u)
    \/ \E u \in UploadIds : finalize_queue(u, 1, LowMedia)

SpecAssemble == InitAssemble /\ [][NextAssemble]_vars

\* SpecAudio: one direct upload of a 480 source with up to MaxAudio audio streams of any
\* language tags, encoded on one permit up to the master playlist
Languages ==
    {NoLanguage, Some(<<"e", "n">>), Some(<<"e", "n", "_", "1">>),
     Some(<<"t", "r", "a", "c", "k">>)}

AudioMedia ==
    {[height |-> 480, audio |-> Len(l), languages |-> l] :
        l \in UNION {[1..n -> Languages] : n \in 0..MaxAudio}}

InitAudio == InitWith({Cfg({}, 1)})

NextAudio ==
    \/ \E u \in UploadIds : upload_video_begin(u, TRUE, 1)
    \/ \E u \in UploadIds : upload_video_chunk(u)
    \/ \E u \in UploadIds : upload_video_queue(u, 1, AudioMedia)
    \/ \E j \in JobIds : coord_inspect(j)
    \/ \E j \in JobIds : encode_to_hls_spawn(j)
    \/ \E j \in JobIds, i \in 1..Len(all_variants) : variant_acquire(j, i)
    \/ \E j \in JobIds, i \in 1..Len(all_variants) : variant_launch(j, i, TRUE)
    \/ \E j \in JobIds, i \in 1..Len(all_variants) : variant_exit(j, i, ExitOk)
    \/ \E j \in JobIds, i \in 1..Len(all_variants) : variant_done(j, i)
    \/ \E j \in JobIds : \E i \in 1..Len(atask[j]) : audio_acquire(j, i)
    \/ \E j \in JobIds : \E i \in 1..Len(atask[j]) : audio_launch(j, i, TRUE)
    \/ \E j \in JobIds : \E i \in 1..Len(atask[j]) : audio_exit(j, i, ExitOk)
    \/ \E j \in JobIds : thumbnail_exit(j, TRUE)
    \/ \E j \in JobIds : sprite_exit(j, TRUE)
    \/ \E j \in JobIds : encode_to_hls_join(j)

SpecAudio == InitAudio /\ [][NextAudio]_vars

\* SpecMeta: one direct upload of a 480 source that is encoded and uploaded without
\* error; subtitle extraction, save_video and the rows after it may fail
InitMeta == InitWith({Cfg({}, 1)})

NextMeta ==
    \/ \E u \in UploadIds : upload_video_begin(u, TRUE, 1)
    \/ \E u \in UploadIds : upload_video_chunk(u)
    \/ \E u \in UploadIds : upload_video_queue(u, 1, PoolMedia)
    \/ \E j \in JobIds : coord_inspect(j)
    \/ \E j \in JobIds : encode_to_hls_spawn(j)
    \/ \E j \in JobIds, i \in 1..Len(all_variants) : variant_acquire(j, i)
    \/ \E j \in JobIds, i \in 1..Len(all_variants) : variant_launch(j, i, TRUE)
    \/ \E j \in JobIds, i \in 1..Len(all_variants) : variant_exit(j, i, ExitOk)
    \/ \E j \in JobIds, i \in 1..Len(all_variants) : variant_done(j, i)
    \/ \E j \in JobIds : thumbnail_exit(j, TRUE)
    \/ \E j \in JobIds : sprite_exit(j, TRUE)
    \/ \E j \in JobIds : encode_to_hls_join(j)
    \/ \E j \in JobIds, extracted \in BOOLEAN : coord_extract(j, extracted)
    \/ \E j \in JobIds : upload_start(j)
    \/ \E j \in JobIds : \E n \in DOMAIN up[j].slots : upload_finish(j, n, TRUE)
    \/ \E j \in JobIds : \E n \in DOMAIN up[j].slots : upload_progress_read(j, n)
    \/ \E j \in JobIds : \E n \in DOMAIN up[j].slots : upload_progress_write(j, n)
    \/ \E j \in JobIds : upload_hls_to_r2_return(j)
    \/ \E j \in JobIds, saved \in BOOLEAN, failed_rows \in SUBSET MetadataRows :
           coord_persist(j, saved, failed_rows)
    \/ \E j \in JobIds : coord_record(j)
    \/ \E j \in JobIds : coord_evict(j)

SpecMeta == InitMeta /\ [][NextMeta]_vars

\* SpecLarge: calls of upload_large_file_to_r2 for files around the threshold and of up
\* to MaxParts parts, with every storage and file operation succeeding or failing
FileSizes ==
    {0, 1, MULTIPART_THRESHOLD - 1, MULTIPART_THRESHOLD, MULTIPART_THRESHOLD + 1}
        \cup {k * MULTIPART_PART_SIZE : k \in 1..MaxParts}
        \cup {k * MULTIPART_PART_SIZE + 1 : k \in 1..(MaxParts - 1)}

InitLarge == InitWith({Cfg({}, 1)})

NextLarge ==
    \/ \E file_size \in FileSizes, metadata_ok \in BOOLEAN :
           upload_large_begin(file_size, metadata_ok)
    \/ \E read_ok \in BOOLEAN, put_ok \in BOOLEAN : upload_large_put(read_ok, put_ok)
    \/ \E created \in BOOLEAN, has_upload_id \in BOOLEAN, opened \in BOOLEAN :
           upload_large_create(created, has_upload_id, opened)
    \/ \E read_ok \in BOOLEAN : upload_large_read(read_ok)
    \/ \E part_ok \in BOOLEAN, aborted \in BOOLEAN : upload_large_part(part_ok, aborted)
    \/ \E completed \in BOOLEAN : upload_large_complete(completed)

SpecLarge == InitLarge /\ [][NextLarge]_vars

\* SpecLocks: the handlers and tasks that take the two locks, each one at a time, in
\* every interleaving of their lock steps
InitLocks == InitWith({Cfg({}, 1)})

NextLocks ==
    \/ \E t \in LockTasks : lock_begin(t)
    \/ \E t \in LockTasks : lock_acquire(t)
    \/ \E t \in LockTasks : lock_release(t)
    \/ \E t \in LockTasks : lock_end(t)

SpecLocks == InitLocks /\ [][NextLocks]_vars

\* SpecCleanup: the requests on one upload id in every interleaving of their steps,
\* next to the stale sweep and cleanup_uploads, on a clock that can pass the stale
\* window
InitCleanup == InitWith({Cfg({}, 1)})

NextCleanup ==
    \/ Tick(TRUE)
    \/ Lapse
    \/ \E u \in UploadIds, idx \in 0..(MaxChunks - 1), body \in OneBody :
           upload_chunk_begin(u, idx, MaxChunks, body, FALSE)
    \/ \E u \in UploadIds : upload_chunk_write(u)
    \/ \E u \in UploadIds : upload_chunk_mark(u)
    \/ \E u \in UploadIds : upload_chunk_count(u)
    \/ \E u \in UploadIds : upload_chunk_progress(u)
    \/ \E u \in UploadIds : finalize_take(u, FALSE, 1)
    \/ \E u \in UploadIds : finalize_assembling(u)
    \/ \E u \in UploadIds : finalize_assemble(u)
    \/ \E u \in UploadIds : finalize_queue(u, 1, LowMedia)
    \/ \E u \in UploadIds : cancel_queue_mark(u, FALSE)
    \/ \E u \in UploadIds : cancel_queue_cleanup(u)
    \/ cleanup_stale_uploads_scan
    \/ cleanup_stale_uploads_remove
    \/ cleanup_uploads_sessions
    \/ cleanup_uploads_progress
    \/ cleanup_uploads_read_dir
    \/ \E u \in UploadIds : cleanup_uploads_entry(u)
    \/ cleanup_uploads_return

SpecCleanup == InitCleanup /\ [][NextCleanup]_vars

\* SpecFinalize: chunk requests one at a time, and finalize calls for the same id that
\* repeat and overlap
InitFinalize == InitWith({Cfg({}, 1)})

NextFinalize ==
    \/ \E u \in UploadIds, idx \in 0..MaxChunks, tot \in 1..MaxChunks, body \in OneBody :
           upload_chunk_begin(u, idx, tot, body, TRUE)
    \/ \E u \in UploadIds : upload_chunk_write(u)
    \/ \E u \in UploadIds : upload_chunk_mark(u)
    \/ \E u \in UploadIds : upload_chunk_count(u)
    \/ \E u \in UploadIds : upload_chunk_progress(u)
    \/ \E u \in UploadIds : finalize_take(u, FALSE, 2)
    \/ \E u \in UploadIds : finalize_take_again(u)
    \/ \E u \in UploadIds : finalize_assembling(u)
    \/ \E u \in UploadIds : finalize_assemble(u)
    \/ \E u \in UploadIds : finalize_queue(u, 2, LowMedia)

SpecFinalize == InitFinalize /\ [][NextFinalize]_vars

\* SpecRecord: one direct upload through to its terminal record, with the saving of
\* the video row succeeding or failing, next to cancel_queue
InitRecord == InitWith({Cfg({}, 1)})

NextRecord ==
    \/ \E u \in UploadIds : upload_video_begin(u, TRUE, 1)
    \/ \E u \in UploadIds : upload_video_chunk(u)
    \/ \E u \in UploadIds : upload_video_queue(u, 1, PoolMedia)
    \/ \E j \in JobIds : coord_inspect(j)
    \/ \E j \in JobIds : encode_to_hls_spawn(j)
    \/ \E j \in JobIds, i \in 1..Len(all_variants) : variant_acquire(j, i)
    \/ \E j \in JobIds, i \in 1..Len(all_variants) : variant_launch(j, i, TRUE)
    \/ \E j \in JobIds, i \in 1..Len(all_variants) : variant_exit(j, i, ExitOk)
    \/ \E j \in JobIds, i \in 1..Len(all_variants) : variant_done(j, i)
    \/ \E j \in JobIds : thumbnail_exit(j, TRUE)
    \/ \E j \in JobIds : sprite_exit(j, TRUE)
    \/ \E j \in JobIds : encode_to_hls_join(j)
    \/ \E j \in JobIds, extracted \in BOOLEAN : coord_extract(j, extracted)
    \/ \E j \in JobIds : upload_start(j)
    \/ \E j \in JobIds : \E n \in DOMAIN up[j].slots : upload_finish(j, n, TRUE)
    \/ \E j \in JobIds : \E n \in DOMAIN up[j].slots : upload_progress_read(j, n)
    \/ \E j \in JobIds : \E n \in DOMAIN up[j].slots : upload_progress_write(j, n)
    \/ \E j \in JobIds : upload_hls_to_r2_return(j)
    \/ \E j \in JobIds, saved \in BOOLEAN, failed_rows \in SUBSET MetadataRows :
           coord_persist(j, saved, failed_rows)
    \/ \E j \in JobIds : coord_record(j)
    \/ \E j \in JobIds : coord_evict(j)
    \/ \E u \in UploadIds : cancel_queue_mark(u, TRUE)
    \/ \E u \in UploadIds : cancel_queue_cleanup(u)

SpecRecord == InitRecord /\ [][NextRecord]_vars

\* SpecPermits: a direct upload of a source with two variants and one audio stream;
\* its encode tasks share the semaphore and end in every way. The tasks are
\* scheduled fairly: a task that can take its next step is run, and every subprocess
\* terminates.
PermitsMedia == {[height |-> 720, audio |-> 1, languages |-> <<NoLanguage>>]}

InitPermits == InitWith({Cfg({}, 1), Cfg({"nvenc"}, 2)})

NextPermits ==
    \/ \E u \in UploadIds : upload_video_begin(u, TRUE, 1)
    \/ \E u \in UploadIds : upload_video_chunk(u)
    \/ \E u \in UploadIds : upload_video_queue(u, 1, PermitsMedia)
    \/ \E j \in JobIds : coord_inspect(j)
    \/ \E j \in JobIds : encode_to_hls_spawn(j)
    \/ \E j \in JobIds, i \in 1..Len(all_variants) : variant_acquire(j, i)
    \/ \E j \in JobIds, i \in 1..Len(all_variants), l \in BOOLEAN : variant_launch(j, i, l)
    \/ \E j \in JobIds, i \in 1..Len(all_variants), out \in Exits : variant_exit(j, i, out)
    \/ \E j \in JobIds, i \in 1..Len(all_variants) : variant_done(j, i)
    \/ \E j \in JobIds : \E i \in 1..Len(atask[j]) : audio_acquire(j, i)
    \/ \E j \in JobIds, l \in BOOLEAN : \E i \in 1..Len(atask[j]) : audio_launch(j, i, l)
    \/ \E j \in JobIds, out \in Exits : \E i \in 1..Len(atask[j]) : audio_exit(j, i, out)
    \/ \E j \in JobIds : thumbnail_exit(j, TRUE)
    \/ \E j \in JobIds : sprite_exit(j, TRUE)
    \/ \E j \in JobIds : encode_to_hls_join(j)

\* a step of an encode task
EncodeStep ==
    \E j \in JobIds :
        \/ \E i \in 1..Len(all_variants) :
               \/ variant_acquire(j, i)
               \/ \E l \in BOOLEAN : variant_launch(j, i, l)
               \/ \E out \in Exits : variant_exit(j, i, out)
               \/ variant_done(j, i)
        \/ \E i \in 1..Len(atask[j]) :
               \/ audio_acquire(j, i)
               \/ \E l \in BOOLEAN : audio_launch(j, i, l)
               \/ \E out \in Exits : audio_exit(j, i, out)

\* as long as an encode task can take a step, the runtime runs one of them
FairPermits == WF_vars(EncodeStep)

SpecPermits == InitPermits /\ [][NextPermits]_vars /\ FairPermits

\* ------------------------------------------------------------------------
\* Properties
\* ------------------------------------------------------------------------
Terminal(p) == p # NoRecord /\ p.status \in {"completed", "failed"}

\* the chunk indices of a session that are not marked received
Missing(s) == {i \in 0..(s.total_chunks - 1) : ~s.received_chunks[i + 1]}

C2_FinalizeAfterReject ==
    [][\A u \in UploadIds :
        (/\ finalize_take(u, TRUE, 1)
         /\ rejects[u] >= 1
         /\ chunked_uploads[u] # NoSession
         /\ chunked_uploads[u].total_chunks >= 1
         /\ 0..(chunked_uploads[u].total_chunks - 1) \subseteq chunk_dirs[u].chunks)
            => (freq'[u] # Idle /\ freq'[u].pc = "taken")
    ]_vars

\* C3: a finalize call that is rejected (unknown id or incomplete upload) leaves the
\* session map and the progress registry as they were.
C3_RejectedFinalizeFrame ==
    [][\A u \in UploadIds :
        (finalize_take(u, TRUE, 1) /\ freq'[u] = Idle)
            => (chunked_uploads' = chunked_uploads /\ progress' = progress)
    ]_vars

\* C4: an upload_chunk whose chunk_index is not below the session's total_chunks is
\* answered with an error value (it neither panics nor is acknowledged).
C4_InvalidIndexRejected ==
    (resp.op = "upload_chunk" /\ resp.total_chunks >= 0
        /\ resp.chunk_index >= resp.total_chunks)
        => resp.code = "invalid_index"

\* the encode subprocesses (variant and audio) running at this moment, over all jobs
RunningEncodes ==
    {x \in JobIds \X {"v"} \X (1..Len(all_variants)) :
        x[3] <= Len(vtask[x[1]]) /\ vtask[x[1]][x[3]].st = "running"}
    \cup
    {x \in JobIds \X {"a"} \X (1..2) :
        x[3] <= Len(atask[x[1]]) /\ atask[x[1]][x[3]].st = "running"}

\* C5: the number of variant and audio encode subprocesses running at the same time,
\* over all jobs, is at most max_concurrent_encodes.
C5_EncodePoolBound == Cardinality(RunningEncodes) <= config.max_concurrent_encodes

\* two jobs compete for the pool: a variant of one runs, a variant of the other waits
C5_Witness ==
    \E j1, j2 \in JobIds :
        /\ j1 # j2
        /\ Len(vtask[j1]) > 0 /\ Len(vtask[j2]) > 0
        /\ vtask[j1][1].st = "running" /\ vtask[j2][1].st = "waiting"
        /\ permits = 0

\* a run that ends the variant task with an error
FatalRun(run) ==
    /\ ~run.exit.success
    /\ (run.enc = "Cpu" \/ ~is_hardware_encoder_error(run.exit.stderr))

\* C6: a variant's encoder runs at most twice; the first run uses the configured
\* encoder whatever happened to the sibling variants; a second run happens only after
\* a first run on a hardware encoder failed with a hardware signature, and it uses the
\* CPU encoder; a fatal run (second run, no signature, or CPU configured) is the last
\* run of the task, ends it with an error, and the job never gets its master playlist.
C6_HardwareFallback ==
    \A j \in JobIds : \A i \in 1..Len(vtask[j]) :
        LET runs == vtask[j][i].runs
        IN /\ Len(runs) <= 2
           /\ Len(runs) >= 1 => runs[1].enc = EncoderType_from_string(config.encoder)
           /\ Len(runs) = 2 =>
                 /\ runs[1].enc # "Cpu"
                 /\ ~runs[1].exit.success
                 /\ is_hardware_encoder_error(runs[1].exit.stderr)
                 /\ runs[2].enc = "Cpu"
           /\ \A k \in 1..Len(runs) :
                 FatalRun(runs[k]) =>
                     (k = Len(runs) /\ vtask[j][i].st = "err" /\ ~master[j])

\* one variant fell back to the CPU and its sibling then started on the hardware encoder
C6_Witness ==
    \E j \in JobIds :
        /\ Len(vtask[j]) >= 2
        /\ Len(vtask[j][1].runs) = 2
        /\ vtask[j][1].runs[2].enc = "Cpu"
        /\ vtask[j][2].st = "running" /\ vtask[j][2].enc = "Nvenc"
        /\ vtask[j][2].runs = <<>>

\* C7: the master playlist of a job exists only if every variant, audio, thumbnail and
\* sprite task of the job has returned Ok, objects of the job are in storage only if
\* the master playlist exists, and a job with a failed variant or audio task has
\* neither.
C7_ManifestAfterJoin ==
    \A j \in JobIds :
        /\ master[j] => (job_pc[j] \notin {"unborn", "start", "inspected", "joining"}
                           /\ TaskStates(j) = {"ok"})
        /\ r2[j] > 0 => master[j]
        /\ (\E i \in 1..Len(vtask[j]) : vtask[j][i].st = "err") => (~master[j] /\ r2[j] = 0)
        /\ (\E i \in 1..Len(atask[j]) : atask[j][i].st = "err") => (~master[j] /\ r2[j] = 0)

\* a job with variant and audio tasks wrote its master playlist and uploaded files
C7_Witness ==
    \E j \in JobIds :
        /\ master[j] /\ r2[j] > 0
        /\ Len(vtask[j]) >= 2 /\ Len(atask[j]) >= 1

\* C8: once the record of an id is failed or completed, no step of a coordinator or of
\* an encode or upload task sets it back to a non-terminal status.
C8_TerminalIsFinal ==
    [][\A u \in UploadIds :
        (Terminal(progress[u]) /\ reqvars' = reqvars)
            => (progress'[u] = NoRecord \/ Terminal(progress'[u]))
    ]_vars

\* C9: a job cancelled while queued never runs an encode subprocess, uploads nothing,
\* and its source temp file is deleted once its coordinator has ended.
C9_CancelledJobStops ==
    \A j \in JobIds :
        job_cancelled[j] =>
            /\ \A i \in 1..Len(vtask[j]) : vtask[j][i].st # "running" /\ vtask[j][i].runs = <<>>
            /\ \A i \in 1..Len(atask[j]) : atask[j][i].st # "running"
            /\ r2[j] = 0
            /\ (job_pc[j] = "end" => ~job_src[j])

early_stages == {"Initializing upload", "Queued for processing", "Receiving chunks"}

\* C10: cancel_queue on an existing record succeeds exactly when the record's status is
\* initializing or its stage is an early stage; otherwise it answers conflict and
\* leaves the registry and the session map unchanged; on success the record becomes
\* failed with detail "Cancelled by user" and keeps its video_name and created_at.
C10_CancelQueue ==
    [][\A u \in UploadIds :
        (cancel_queue_mark(u, TRUE) /\ progress[u] # NoRecord)
            => IF progress[u].status = "initializing" \/ progress[u].stage \in early_stages
               THEN /\ xreq'[u] # Idle
                    /\ progress'[u].status = "failed"
                    /\ progress'[u].details = "Cancelled by user"
                    /\ progress'[u].error = "Cancelled by user"
                    /\ progress'[u].video_name = progress[u].video_name
                    /\ progress'[u].created_at = progress[u].created_at
               ELSE /\ resp'.op = "cancel_queue" /\ resp'.code = "conflict"
                    /\ xreq'[u] = Idle
                    /\ progress' = progress
                    /\ chunked_uploads' = chunked_uploads
    ]_vars

\* a record created at a later clock value was cancelled and kept its created_at
C10_Witness ==
    \E u \in UploadIds :
        /\ resp.op = "cancel_queue" /\ resp.uid = u /\ resp.code = "cancelled"
        /\ progress[u] # NoRecord
        /\ progress[u].details = "Cancelled by user"
        /\ progress[u].video_name = ChunkVideoName
        /\ progress[u].created_at > 1
        /\ chunked_uploads[u] = NoSession

\* C11: every record of the registry has percentage 100 exactly when its status is
\* completed (no processing or failed record reports 100).
C11_HundredIffCompleted ==
    \A u \in UploadIds :
        progress[u] # NoRecord =>
            (progress[u].percentage = 100 <=> progress[u].status = "completed")

\* C12: once the coordinator of a job has written its terminal record (on success or
\* on failure), the source temp file and the directory hls-<output_id> of the job are
\* deleted.
C12_CleanupOnEveryExit ==
    \A j \in JobIds :
        job_pc[j] \in {"sleeping", "end"} => (~job_src[j] /\ ~job_hls[j])

\* some coordinator of the id has not yet written its terminal record
LiveJob(u) == \E j \in JobIds : job_uid[j] = u /\ job_pc[j] \notin {"unborn", "sleeping", "end"}

\* C13: when the work on an id has stopped (no handler is running, no chunk session is
\* open for it, no coordinator of it is still to write its terminal record), the record
\* of the id is absent or has status completed or failed.
C13_NoStuckRecord ==
    \A u \in UploadIds :
        (NoRequest /\ chunked_uploads[u] = NoSession /\ ~LiveJob(u))
            => (progress[u] = NoRecord \/ Terminal(progress[u]))

\* some coordinator of the id has its grace removal still ahead
EvictionPending(u) == \E j \in JobIds : job_uid[j] = u /\ job_pc[j] \notin {"unborn", "end"}

\* C14: a record with status completed or failed is going to be removed: a coordinator
\* of the id has its grace removal still ahead, or a chunk session of the id is left
\* for the stale sweep to remove together with the record.
C14_TerminalRecordRemoved ==
    \A u \in UploadIds :
        Terminal(progress[u]) => (EvictionPending(u) \/ chunked_uploads[u] # NoSession)

\* C15: a run of cleanup_stale_uploads collects every session whose last_activity is
\* more than the 30-minute window old, and its removal step leaves every collected id
\* without session, without temp directory and without progress entry.
C15_StaleSweep ==
    [][ /\ (cleanup_stale_uploads_scan =>
               \A u \in UploadIds :
                   (chunked_uploads[u] # NoSession
                    /\ now - chunked_uploads[u].last_activity > STALE_UPLOAD_TIMEOUT_MS)
                       => (sweep'.pc = "remove" /\ u \in sweep'.ids))
        /\ (cleanup_stale_uploads_remove =>
               \A u \in sweep.ids :
                   /\ chunked_uploads'[u] = NoSession
                   /\ ~chunk_dirs'[u].exists
                   /\ progress'[u] = NoRecord) ]_vars

\* a sweep has removed a session that had received a chunk and had a record
C15_Witness ==
    /\ sweep.pc = "done"
    /\ "u1" \in sweep.ids
    /\ now > STALE_UPLOAD_TIMEOUT_MS
    /\ chunked_uploads["u1"] = NoSession
    /\ ~chunk_dirs["u1"].exists
    /\ progress["u1"] = NoRecord
    /\ resp.op = "upload_chunk" /\ resp.code = "received"

\* C16: when upload_hls_to_r2 returns, the upload of every enumerated file has been
\* attempted and has settled, also after failures; it returns an error if any upload
\* failed; it returns a key only if every file was uploaded and index.m3u8 is at the
\* top of the tree, and the key is then <prefix>index.m3u8.
C16_UploadAllOrError ==
    [][\A j \in JobIds :
          upload_hls_to_r2_return(j) =>
              /\ up[j].pending = 0
              /\ up[j].done + up[j].failed = up[j].total
              /\ up[j].total = Cardinality(up[j].files_to_upload)
              /\ up[j].failed > 0 => (job_pc'[j] = "failed" /\ up'[j].playlist_key = <<>>)
              /\ job_pc'[j] = "uploaded" =>
                     /\ up[j].done = up[j].total
                     /\ r2[j] = up[j].total
                     /\ <<output_id(j), "index.m3u8">> \in up[j].files_to_upload
                     /\ up'[j].playlist_key = <<output_id(j), "index.m3u8">>
    ]_vars

\* upload_hls_to_r2 has returned an error after uploads failed and others, started
\* after the first failure, succeeded
C16_Witness ==
    \E j \in JobIds :
        /\ job_pc[j] = "failed"
        /\ up[j].total = 5
        /\ up[j].failed = 1
        /\ up[j].done = 4
        /\ r2[j] = 4
        /\ progress[job_uid[j]] # NoRecord
        /\ progress[job_uid[j]].stage = "Upload to R2"
        /\ progress[job_uid[j]].current_chunk = 4

\* C17: while the record of a job is in the stage "Upload to R2", no write lowers its
\* percentage or its current_chunk, whatever the order in which the upload futures of
\* the job take their steps, and every write keeps its video_name and created_at.
C17_UploadProgressMonotone ==
    [][\A u \in UploadIds :
          (/\ progress[u] # NoRecord /\ progress[u].stage = "Upload to R2"
           /\ progress'[u] # NoRecord /\ progress'[u].stage = "Upload to R2")
              => /\ progress'[u].percentage >= progress[u].percentage
                 /\ progress'[u].current_chunk >= progress[u].current_chunk
                 /\ progress'[u].video_name = progress[u].video_name
                 /\ progress'[u].created_at = progress[u].created_at
    ]_vars

\* the put_object requests of a job that are in flight
PutInFlight(j) == Cardinality({n \in DOMAIN up[j].slots : up[j].slots[n].pc = "put"})

\* C18: the number of object-storage uploads in flight, summed over all jobs, is at
\* most max_concurrent_uploads.
C18_UploadPoolBound ==
    PutInFlight(1) + PutInFlight(2) <= config.max_concurrent_uploads

\* C19: as long as the record of an id exists, every write to it leaves created_at
\* at the value of the first write.
C19_CreatedAtFirstWriteWins ==
    [][\A u \in UploadIds :
          (progress[u] # NoRecord /\ progress'[u] # NoRecord)
              => progress'[u].created_at = progress[u].created_at
    ]_vars

\* the ladder members at or below a height
LadderUpTo(H) == {all_variants[i] : i \in {k \in 1..Len(all_variants) : all_variants[k] <= H}}

\* encode_to_hls of the job has derived its variants
Derived(j) == job_pc[j] \notin {"unborn", "start", "inspected"}

\* C20 (amended): for every source height H, get_variants_for_height(H) holds exactly
\* the ladder members with height <= H, listed strictly increasing in height; for
\* H = 1080 these are 480p, 720p and 1080p; for H < 480 the list is empty and
\* encode_to_hls fails without an encode task.
C20_LadderIncreasing ==
    \A j \in JobIds :
        Derived(j) =>
            LET H == job_media[j].height
                variants == get_variants_for_height(H)
            IN /\ {variants[i] : i \in 1..Len(variants)} = LadderUpTo(H)
               /\ \A i \in 1..(Len(variants) - 1) : variants[i] < variants[i + 1]
               /\ H = 1080 => [i \in 1..Len(variants) |-> variant_label(variants[i])]
                                  = <<<<"4", "8", "0", "p">>, <<"7", "2", "0", "p">>,
                                      <<"1", "0", "8", "0", "p">>>>
               /\ job_pc[j] = "joining" => Len(vtask[j]) = Cardinality(LadderUpTo(H))
               /\ H < 480 => (variants = <<>> /\ vtask[j] = <<>> /\ job_pc[j] # "joining")

\* encode_to_hls has spawned the three variant tasks of a source of height 1080
C20_Witness ==
    \E j \in JobIds :
        /\ job_pc[j] = "joining"
        /\ job_media[j].height = 1080
        /\ Len(vtask[j]) = 3

\* C20 (as stated): for every source height H, get_variants_for_height(H) holds exactly
\* the ladder members with height <= H, listed strictly decreasing in height; for
\* H < 480 the list is empty and encode_to_hls fails without an encode task.
C20_LadderDecreasing ==
    \A j \in JobIds :
        Derived(j) =>
            LET H == job_media[j].height
                variants == get_variants_for_height(H)
            IN /\ {variants[i] : i \in 1..Len(variants)} = LadderUpTo(H)
               /\ \A i \in 1..(Len(variants) - 1) : variants[i] > variants[i + 1]
               /\ H < 480 => (variants = <<>> /\ vtask[j] = <<>> /\ job_pc[j] # "joining")

\* the positions of the entries of a kind in the master playlist of a job
Entries(j, tag) == {n \in 1..Len(playlist[j]) : playlist[j][n].tag = tag}

\* C21: a written master playlist has exactly one EXT-X-STREAM-INF entry per variant of
\* the ladder of the source and exactly one EXT-X-MEDIA entry per audio track, and its
\* STREAM-INF entries carry the AUDIO group exactly when there are audio tracks; a
\* 2160 source with 2 audio tracks gives 5 STREAM-INF and 2 MEDIA entries.
C21_MasterPlaylistEntries ==
    \A j \in JobIds :
        master[j] =>
            LET H == job_media[j].height
                si == Entries(j, "EXT-X-STREAM-INF")
                em == Entries(j, "EXT-X-MEDIA")
            IN /\ \A h \in LadderUpTo(H) :
                      Cardinality({n \in si : playlist[j][n].height = h}) = 1
               /\ \A n \in si : /\ playlist[j][n].height \in LadderUpTo(H)
                                /\ playlist[j][n].uri
                                       = <<variant_label(playlist[j][n].height), "index.m3u8">>
               /\ Cardinality(si) = Len(vtask[j])
               /\ Cardinality(em) = Len(atask[j])
               /\ \A i \in 1..Len(atask[j]) :
                      Cardinality({n \in em : playlist[j][n].uri
                                       = <<atask[j][i].dir, "index.m3u8">>}) = 1
               /\ \A n \in si : playlist[j][n].audio <=> Len(atask[j]) > 0
               /\ (H = 2160 /\ Len(atask[j]) = 2)
                      => (Cardinality(si) = 5 /\ Cardinality(em) = 2)

\* the master playlist of a 2160 source with two audio tracks is written
C21_Witness ==
    \E j \in JobIds :
        /\ master[j]
        /\ job_pc[j] = "encoded"
        /\ job_media[j].height = 2160
        /\ Len(atask[j]) = 2
        /\ Len(playlist[j]) = 7

\* C22: the items returned by list_queues are the records of the registry, each exactly
\* once, in ascending order of created_at for every iteration order of the map, and
\* active_count + completed_count + failed_count is the number of items.
C22_ListQueues ==
    [][(\E order \in Orders : list_queues(order)) =>
          LET items == resp'.items
          IN /\ \A id \in DOMAIN progress :
                    Cardinality({k \in 1..Len(items) : items[k].upload_id = id})
                        = IF progress[id] # NoRecord THEN 1 ELSE 0
             /\ \A k \in 1..Len(items) :
                    /\ items[k].upload_id \in DOMAIN progress
                    /\ items[k] = QueueItem(items[k].upload_id, progress[items[k].upload_id])
             /\ \A a, b \in 1..Len(items) :
                    a < b => items[a].created_at <= items[b].created_at
             /\ resp'.active_count + resp'.completed_count + resp'.failed_count = Len(items)
    ]_vars

\* a listing of three records of different age, an active, a completed and a failed
\* one, the oldest being the one of u3
C22_Witness ==
    /\ resp.op = "list_queues"
    /\ Len(resp.items) = 3
    /\ resp.items[1].upload_id = "u3"
    /\ resp.items[1].created_at < resp.items[2].created_at
    /\ resp.items[2].created_at < resp.items[3].created_at
    /\ resp.active_count = 1 /\ resp.completed_count = 1 /\ resp.failed_count = 1

\* C23: an authorized progress stream of an id ends: whenever it is still polling and
\* the work on the id has stopped (no request in flight, no session, no coordinator
\* before its terminal record), the id has a terminal record, which the next poll
\* yields as the last event, or no record, for which the bounded wait ends the stream.
C23_StreamTerminates ==
    \A u \in UploadIds :
        (sse[u].pc = "poll" /\ NoRequest /\ chunked_uploads[u] = NoSession /\ ~LiveJob(u))
            => (progress[u] = NoRecord \/ Terminal(progress[u]))

\* C24: once encode_to_hls has returned to the coordinator, with success or with the
\* error of a task, every variant, audio, thumbnail and sprite task of the job has
\* ended.
C24_AllTasksJoined ==
    \A j \in JobIds :
        job_pc[j] \notin {"unborn", "start", "inspected", "joining"}
            => TaskStates(j) \subseteq {"none", "ok", "err"}

\* the tasks that hold an insert into the record of upload id u that is still to be
\* performed: a variant task between its read of the record and its insert or before
\* its "Encoded variant" insert, an audio task between its read and its insert, and the
\* coordinator before the record of its next stage
Writers(u) ==
    LET jobs == {j \in JobIds : job_uid[j] = u}
    IN {w \in {<<"variant", j, i>> : j \in jobs, i \in 1..Len(all_variants)} :
              w[3] <= Len(vtask[w[2]]) /\ vtask[w[2]][w[3]].st \in {"acquired", "encoded"}}
       \cup {w \in {<<"audio", j, i>> : j \in jobs, i \in 1..2} :
                 w[3] <= Len(atask[w[2]]) /\ atask[w[2]][w[3]].st = "acquired"}
       \cup {<<"coordinator", j, 0>> :
                j \in {k \in jobs : job_pc[k] \in {"start", "encoded", "succeeded", "failed"}}}

\* C25: at no time do two different tasks hold an insert into the progress record of
\* the same job id; the record of an id is written by the coordinator of its job alone.
C25_SingleWriter ==
    \A u \in UploadIds :
        /\ Cardinality(Writers(u)) <= 1
        /\ \A w \in Writers(u) : w[1] = "coordinator"

\* the order of the coordinator's stages: inspect, encode, extract, upload, persist,
\* record, with the exit of every stage to failed
StageOrder ==
    {<<"start", "inspected">>, <<"inspected", "joining">>, <<"joining", "encoded">>,
     <<"encoded", "uploading">>, <<"uploading", "uploaded">>, <<"uploaded", "succeeded">>,
     <<"succeeded", "sleeping">>, <<"failed", "sleeping">>, <<"sleeping", "end">>}
        \cup {<<s, "failed">> : s \in {"start", "inspected", "joining", "encoded",
                                        "uploading", "uploaded"}}

\* C26: a record becomes completed only by the coordinator whose job went through
\* inspect, encode, extract, upload and persist in this order, with every file uploaded
\* and save_video succeeded; a failed stage is followed by no later stage and by the
\* failed record with an error text; the completed record carries the player URL of the
\* output id, not of the upload id.
C26_StagedCompletion ==
    [][/\ \A j \in JobIds :
            /\ job_pc'[j] # job_pc[j] =>
                  /\ job_pc[j] # "unborn" => <<job_pc[j], job_pc'[j]>> \in StageOrder
                  /\ job_pc'[j] = "uploaded" =>
                        /\ up[j].failed = 0 /\ up[j].pending = 0 /\ Uploading(j) = {}
                        /\ r2[j] = Cardinality(up[j].files_to_upload)
                        /\ up'[j].playlist_key = <<output_id(j), "index.m3u8">>
                  /\ job_pc'[j] = "succeeded" => ~job_src'[j] /\ ~job_hls'[j]
                  /\ job_pc[j] = "succeeded" =>
                        LET p == progress'[job_uid[j]]
                        IN /\ p.status = "completed" /\ p.percentage = 100
                           /\ p.error = None
                           /\ p.result.player_url = <<"/player/", output_id(j)>>
                           /\ p.result.player_url # <<"/player/", job_uid[j]>>
                  /\ job_pc[j] = "failed" =>
                        LET p == progress'[job_uid[j]]
                        IN p.status = "failed" /\ p.error # None /\ p.result = None
            /\ job_pc[j] = "failed" =>
                  /\ up'[j] = up[j] /\ r2'[j] = r2[j] /\ master'[j] = master[j]
                  /\ job_src'[j] = job_src[j] /\ job_hls'[j] = job_hls[j]
       /\ \A u \in UploadIds :
            (progress'[u] # NoRecord /\ progress'[u].status = "completed"
                /\ progress'[u] # progress[u])
                => \E j \in JobIds : /\ job_uid[j] = u
                                     /\ job_pc[j] = "succeeded" /\ job_pc'[j] = "sleeping"
    ]_vars

C26_Witness ==
    \E j \in JobIds :
        /\ job_pc[j] = "sleeping"
        /\ r2[j] = Cardinality(up[j].files_to_upload) /\ r2[j] > 0
        /\ progress[job_uid[j]] # NoRecord
        /\ progress[job_uid[j]].status = "completed"
        /\ progress[job_uid[j]].result = UploadResponse(j)

RECURSIVE ChunksFrom(_, _, _)
\* chunk_i ++ chunk_{i+1} ++ ... ++ chunk_{total-1} of the stored contents
ChunksFrom(data, i, total) ==
    IF i >= total THEN <<>> ELSE data[i] \o ChunksFrom(data, i + 1, total)

\* C27: a chunk request replaces the content stored for its index and leaves the other
\* indices alone, whatever arrived before; the file assembled by finalize is
\* chunk_0 ++ chunk_1 ++ ... ++ chunk_{total-1} of the contents stored last.
C27_AssembledInIndexOrder ==
    [][\A u \in UploadIds :
        /\ (creq[u] # Idle /\ creq[u].pc = "write" /\ creq'[u] # Idle /\ creq'[u].pc = "mark")
              => /\ chunk_dirs'[u].data[creq[u].chunk_index] = creq[u].chunk_data
                 /\ \A i \in DOMAIN chunk_dirs[u].data \ {creq[u].chunk_index} :
                       chunk_dirs'[u].data[i] = chunk_dirs[u].data[i]
        /\ (creq[u] = Idle \/ creq[u].pc # "write")
              => \/ chunk_dirs'[u].data = chunk_dirs[u].data
                 \/ ~chunk_dirs'[u].exists
        /\ (freq[u] # Idle /\ freq[u].pc = "assembling" /\ freq'[u] # Idle)
              => /\ freq'[u].pc = "assembled"
                 /\ freq'[u].final_file =
                        ChunksFrom(chunk_dirs[u].data, 0, freq[u].total_chunks)
    ]_vars

C27_Witness ==
    \E u \in UploadIds :
        /\ freq[u] # Idle /\ freq[u].pc = "assembled"
        /\ freq[u].total_chunks = 2
        /\ freq[u].final_file = <<"y", "z", "x">>

\* C28: every session of the chunked-upload map has as many received flags as its
\* total_chunks says, and a later chunk request of the same upload id with another
\* total_chunks changes neither: the session keeps the total of its first chunk.
C28_ReceivedLenIsTotal ==
    [][\A u \in UploadIds :
        LET s == chunked_uploads[u]
            t == chunked_uploads'[u]
        IN /\ t # NoSession => Len(t.received_chunks) = t.total_chunks
           /\ (s # NoSession /\ t # NoSession)
                 => /\ t.total_chunks = s.total_chunks
                    /\ Len(t.received_chunks) = Len(s.received_chunks)
    ]_vars

C28_Witness ==
    \E u \in UploadIds :
        /\ chunked_uploads[u] # NoSession
        /\ chunked_uploads[u].total_chunks = 2
        /\ Len(chunked_uploads[u].received_chunks) = 2
        /\ creq[u] = Idle
        /\ resp.op = "upload_chunk" /\ resp.code = "received"
        /\ progress[u] # NoRecord
        /\ progress[u].stage = "Receiving chunks" /\ progress[u].total_chunks = 1

\* C29: every record of the registry has a percentage of 0..100 and a current_chunk of
\* at most its total_chunks, also while chunks are received and a request carries a
\* smaller total_chunks than the session; received_count * 100 / total_chunks never
\* divides by zero.
C29_PercentageInRange ==
    [][\A u \in UploadIds :
        /\ progress'[u] # NoRecord
              => /\ 0 <= progress'[u].percentage /\ progress'[u].percentage <= 100
                 /\ progress'[u].current_chunk <= progress'[u].total_chunks
        /\ creq[u].pc = "count" => creq'[u].pc = "progress"
    ]_vars

\* C30: every record of the stage "FFmpeg processing" of a job, from the first to the
\* last, has for total_chunks the number of variants plus the number of audio tracks
\* of the source (7 for a 2160 source with two audio tracks).
C30_TotalIsVariantsPlusAudio ==
    \A j \in JobIds :
        (/\ job_pc[j] \in {"inspected", "joining"}
         /\ progress[job_uid[j]] # NoRecord
         /\ progress[job_uid[j]].stage = "FFmpeg processing")
            => progress[job_uid[j]].total_chunks =
                   Len(get_variants_for_height(job_media[j].height)) + job_media[j].audio

\* C31: the audio labels of the tracks of a source are pairwise distinct whatever the
\* language tags are, so are the directories the audio tasks encode into, and the i-th
\* EXT-X-MEDIA entry of the master playlist names the directory of the i-th audio task.
C31_AudioLabelsDistinct ==
    \A j \in JobIds :
        LET L == job_media[j].languages
            made == {i \in 1..Len(atask[j]) : atask[j][i].st # "waiting"}
        IN /\ \A i \in 1..Len(L), k \in 1..Len(L) :
                  i # k => audio_label(L[i], i - 1) # audio_label(L[k], k - 1)
           /\ \A i \in made, k \in made : i # k => atask[j][i].dir # atask[j][k].dir
           /\ master[j] =>
                 \A i \in 1..Len(atask[j]) :
                     /\ playlist[j][i].tag = "EXT-X-MEDIA"
                     /\ playlist[j][i].uri = <<atask[j][i].dir, "index.m3u8">>

\* the master playlist of a source with three audio tracks, two of them tagged en
C31_Witness ==
    \E j \in JobIds :
        /\ master[j]
        /\ Len(atask[j]) = 3
        /\ job_media[j].languages[1] = Some(<<"e", "n">>)
        /\ job_media[j].languages[2] = Some(<<"e", "n">>)
        /\ job_media[j].languages[3] = NoLanguage
        /\ playlist[j][2].uri = <<<<"a", "u", "d", "i", "o", "_", "e", "n", "_", "1">>, "index.m3u8">>

\* C32: a subtitle stream that cannot be extracted does not stop the job before the
\* upload, and once save_video has succeeded a subtitle, attachment or chapter row that
\* cannot be saved does not change the outcome: the job succeeds and its record becomes
\* completed.
C32_BestEffortMetadata ==
    [][\A j \in JobIds :
        /\ (job_pc[j] = "encoded" /\ "subtitle stream" \in up'[j].skipped)
              => job_pc'[j] = "uploading"
        /\ (job_pc[j] = "uploaded" /\ up'[j].saved) => job_pc'[j] = "succeeded"
        /\ (up[j].saved /\ job_pc[j] = "succeeded" /\ job_pc'[j] # job_pc[j])
              => /\ job_pc'[j] = "sleeping"
                 /\ progress'[job_uid[j]].status = "completed"
        /\ (up[j].saved /\ up'[j].saved) => job_pc'[j] \in {"succeeded", "sleeping", "end"}
    ]_vars

\* a job whose subtitle extraction and whose three kinds of rows failed is completed
C32_Witness ==
    \E j \in JobIds :
        /\ up[j].saved
        /\ up[j].skipped = MetadataRows \cup {"subtitle stream"}
        /\ job_pc[j] = "sleeping"
        /\ progress[job_uid[j]] # NoRecord
        /\ progress[job_uid[j]].status = "completed"

\* C33: when upload_large_file_to_r2 has returned, a multipart upload it created is
\* completed, or abort_multipart_upload was issued for it before the error was returned;
\* a file below the threshold is put once and creates no multipart upload.
C33_MultipartClosed ==
    mp.pc = "returned" =>
        /\ mp.session # "none" => (mp.session = "completed" \/ mp.abort_issued)
        /\ mp.file_size < MULTIPART_THRESHOLD => (mp.session = "none" /\ mp.puts <= 1)
        /\ mp.result = "Ok" => (mp.session = "completed" \/ mp.puts = 1)

\* a task waits for a lock: its next step is an acquire that cannot be granted
Waits(t, lock) ==
    /\ AtStep(t)
    /\ LockProgram(t)[lk.pc[t]].op = "acquire"
    /\ LockProgram(t)[lk.pc[t]].lock = lock
    /\ ~Grantable(lock, LockProgram(t)[lk.pc[t]].mode)

Holds(t, lock) == \E h \in lk.held : h.task = t /\ h.lock = lock

\* C34: no state is reachable in which one task holds the progress-registry lock and
\* waits for the chunked-uploads lock while another task holds the chunked-uploads lock
\* and waits for the progress-registry lock.
C34_NoLockCycle ==
    ~\E t1 \in LockTasks, t2 \in LockTasks :
        /\ t1 # t2
        /\ Holds(t1, "progress") /\ Waits(t1, "chunked_uploads")
        /\ Holds(t2, "chunked_uploads") /\ Waits(t2, "progress")

\* C35: the removal step of cleanup_stale_uploads removes no session that is not stale
\* at the moment of the removal: a session that has stored a chunk since the scan keeps
\* its session, its temp directory and its progress entry.
C35_RemovedOnlyIfStale ==
    [][cleanup_stale_uploads_remove =>
          \A u \in sweep.ids :
              (chunked_uploads[u] # NoSession /\ ~is_stale(now, chunked_uploads[u]))
                  => /\ chunked_uploads'[u] = chunked_uploads[u]
                     /\ chunk_dirs'[u] = chunk_dirs[u]
                     /\ progress'[u] = progress[u]]_vars

\* C36: when upload_chunk returns success for an upload id and a chunk index, a session
\* of the id exists with the received flag of the index set, and the chunk file exists
\* in the temp directory of the session.
C36_AcknowledgedIsRecorded ==
    [][\A u \in UploadIds :
          (upload_chunk_progress(u) /\ resp'.code = "received") =>
              /\ chunked_uploads'[u] # NoSession
              /\ creq[u].chunk_index < Len(chunked_uploads'[u].received_chunks)
              /\ chunked_uploads'[u].received_chunks[creq[u].chunk_index + 1]
              /\ chunk_dirs'[u].exists
              /\ creq[u].chunk_index \in chunk_dirs'[u].chunks]_vars

\* C37: once finalize_chunked_upload has taken the session of a complete upload out of
\* the map, cleanup_uploads does not delete the temp directory of the upload before the
\* chunks are assembled.
C37_CleanupKeepsFinalizingDir ==
    [][\A u \in UploadIds :
          (cleanup_uploads_entry(u) /\ freq[u].pc \in {"taken", "assembling"})
              => chunk_dirs'[u] = chunk_dirs[u]]_vars

\* C38: of the finalize_chunked_upload calls for one session at most one succeeds and
\* at most one coordinator is started: a call that overlaps a call in flight, and a
\* call repeated after another call has returned, fails with not-found and starts
\* nothing, and when the coordinator is started the session is no longer in the map.
C38_OneFinalizePerSession ==
    [][\A u \in UploadIds :
          /\ finalize_take_again(u) =>
                 (resp'.code = "not_found" /\ njobs' = njobs /\ freq' = freq)
          /\ (/\ finalize_take(u, FALSE, 2)
              /\ resp.op = "finalize" /\ resp.uid = u /\ creq[u] = Idle) =>
                 (resp'.code = "not_found" /\ njobs' = njobs /\ freq' = freq)
          /\ finalize_queue(u, 2, LowMedia) => chunked_uploads[u] = NoSession]_vars

\* a call has failed with not-found while another call for the id is assembling, and a
\* coordinator was started for the id before
C38_Witness ==
    /\ resp.op = "finalize" /\ resp.code = "not_found"
    /\ freq["u1"].pc = "assembling"
    /\ njobs = 1 /\ job_uid[1] = "u1"

\* an Option value is Some(..)
IsSome(option) == ToString(option) # ToString(None)

\* C39: every record of the registry has a result exactly if its status is completed and
\* an error text exactly if its status is failed.
C39_ResultAndErrorMatchStatus ==
    \A u \in UploadIds :
        progress[u] # NoRecord =>
            /\ IsSome(progress[u].result) <=> (progress[u].status = "completed")
            /\ IsSome(progress[u].error) <=> (progress[u].status = "failed")

\* a job has written its completed record with the response as its result
C39_Witness ==
    \E j \in JobIds :
        /\ job_pc[j] = "sleeping"
        /\ progress[job_uid[j]] # NoRecord
        /\ progress[job_uid[j]].status = "completed"
        /\ progress[job_uid[j]].result = UploadResponse(j)
        /\ progress[job_uid[j]].error = None

\* the encode tasks that hold a permit: between their acquire and their end
PermitHolders ==
    {x \in JobIds \X {"v"} \X (1..Len(all_variants)) :
        x[3] <= Len(vtask[x[1]])
        /\ vtask[x[1]][x[3]].st \in {"acquired", "running", "retry", "encoded"}}
    \cup
    {x \in JobIds \X {"a"} \X (1..MaxAudio) :
        x[3] <= Len(atask[x[1]]) /\ atask[x[1]][x[3]].st \in {"acquired", "running"}}

\* encode_to_hls of the job has spawned its encode tasks
EncodeSpawned(j) == Len(vtask[j]) > 0

\* every encode task of the job has acquired a permit and has ended
EncodeFinished(j) ==
    /\ Len(vtask[j]) > 0
    /\ \A i \in 1..Len(vtask[j]) : vtask[j][i].st \in {"ok", "err"}
    /\ \A i \in 1..Len(atask[j]) : atask[j][i].st \in {"ok", "err"}

\* C40: every encode task returns its permit when it ends, in whatever way: the free
\* permits and the tasks holding one add up to max_concurrent_encodes, so with no
\* encode task running the semaphore is full; and every encode task of every job
\* eventually acquires a permit and finishes.
C40_PermitsReturned ==
    /\ [](permits + Cardinality(PermitHolders) = config.max_concurrent_encodes)
    /\ \A j \in JobIds : EncodeSpawned(j) ~> EncodeFinished(j)

\* the three encode tasks of a job are over with one permit to share: one variant ended
\* with an error after its fallback run, the others succeeded, and the semaphore is
\* full again
C40_Witness ==
    /\ config.max_concurrent_encodes = 1
    /\ Len(vtask[1]) = 2 /\ Len(atask[1]) = 1
    /\ vtask[1][1].st = "err" /\ Len(vtask[1][1].runs) >= 1
    /\ vtask[1][2].st = "ok" /\ atask[1][1].st = "ok"
    /\ PermitHolders = {}
    /\ permits = 1

====
